---- MODULE Spec2Model ----
(***************************************************************************)
(* Model of the RAJA sparse-triplet matrices of HiOp:                      *)
(*   hiopMatrixRajaSparseTriplet and hiopMatrixRajaSymSparseTriplet.       *)
(* Doubles are modelled by integers (exact arithmetic); buffers are        *)
(* zero-based arrays living in a heap indexed by allocation id, so that    *)
(* aliasing between the device arrays and the host mirror is visible.      *)
(***************************************************************************)
EXTENDS Integers, Sequences, FiniteSets, TLC

VARIABLES build, heap, A, B, call, prev

vars == <<build, heap, A, B, call, prev>>

(***************************************************************************)
(* Bounds of the model.                                                    *)
(***************************************************************************)
MaxRows == 2
MaxCols == 2
MaxNnz == 2

\* values stored in the matrices of the matrix-vector products
Vals == {1, 3}
\* pairs <<beta, alpha>> of scalars: the plain product and a scaled one
PlainScalars == {<<0, 1>>}
Scalars == PlainScalars \cup {<<2, 3>>}

(***************************************************************************)
(* Generic helpers.                                                        *)
(***************************************************************************)
NULL == 0

Range0(n) == 0 .. (n - 1)

Abs(v) == IF v < 0 THEN 0 - v ELSE v

RECURSIVE SumF(_, _)
SumF(f, S) ==
  IF S = {} THEN 0
  ELSE LET e == CHOOSE u \in S : TRUE
       IN  f[e] + SumF(f, S \ {e})

Dot(u, v) == SumF([i \in DOMAIN u |-> u[i] * v[i]], DOMAIN u)

MaxOfSet(S) == CHOOSE m \in S : \A u \in S : u <= m

(***************************************************************************)
(* The allocator: umpire::Allocator::allocate returns a fresh buffer whose *)
(* content is whatever the memory held (junk).                             *)
(***************************************************************************)
NextId(h) == IF DOMAIN h = {} THEN 1 ELSE MaxOfSet(DOMAIN h) + 1

allocate(h, n, junk) == h @@ (NextId(h) :> [i \in Range0(n) |-> junk])

\* umpire::ResourceManager::copy(dst, src): full copy of the source buffer
copy(h, dst, src) == [h EXCEPT ![dst] = h[src]]

(***************************************************************************)
(* Constructor of hiopMatrixRajaSparseTriplet.                             *)
(***************************************************************************)
EffNnz(rows, cols, nz) == IF rows = 0 \/ cols = 0 THEN 0 ELSE nz

EffMemSpace(gpu, memspace) == IF gpu THEN memspace ELSE "HOST"

\* the constructor never allocating a host mirror
hiopMatrixRajaSparseTriplet_noMirror(h, cls, rows, cols, nz, memspace, gpu, junk) ==
  LET n  == EffNnz(rows, cols, nz)
      i1 == NextId(h)
      h1 == allocate(h, n, junk)
      i2 == NextId(h1)
      h2 == allocate(h1, n, junk)
      i3 == NextId(h2)
      h3 == allocate(h2, n, junk)
  IN  [obj  |-> [cls |-> cls, nrows |-> rows, ncols |-> cols, nnz |-> n,
                 mem_space_ |-> EffMemSpace(gpu, memspace),
                 row_starts_host |-> NULL,
                 iRow_ |-> i1, jCol_ |-> i2, values_ |-> i3,
                 iRow_host_ |-> i1, jCol_host_ |-> i2, values_host_ |-> i3],
       heap |-> h3]

hiopMatrixRajaSparseTriplet(h, cls, rows, cols, nz, memspace, gpu, junk) ==
  LET n  == EffNnz(rows, cols, nz)
      ms == EffMemSpace(gpu, memspace)
      i1 == NextId(h)
      h1 == allocate(h, n, junk)
      i2 == NextId(h1)
      h2 == allocate(h1, n, junk)
      i3 == NextId(h2)
      h3 == allocate(h2, n, junk)
      i4 == NextId(h3)
      h4 == allocate(h3, n, junk)
      i5 == NextId(h4)
      h5 == allocate(h4, n, junk)
      i6 == NextId(h5)
      h6 == allocate(h5, n, junk)
      base == [cls |-> cls, nrows |-> rows, ncols |-> cols, nnz |-> n,
               mem_space_ |-> ms, row_starts_host |-> NULL,
               iRow_ |-> i1, jCol_ |-> i2, values_ |-> i3]
  IN  IF ms = "DEVICE"
      THEN [obj  |-> base @@ [iRow_host_ |-> i4, jCol_host_ |-> i5,
                              values_host_ |-> i6],
            heap |-> h6]
      ELSE [obj  |-> base @@ [iRow_host_ |-> i1, jCol_host_ |-> i2,
                              values_host_ |-> i3],
            heap |-> h3]

\* the three device arrays and the three host-mirror arrays of a matrix
DevBufs(m) == {m.iRow_, m.jCol_, m.values_}
HostBufs(m) == {m.iRow_host_, m.jCol_host_, m.values_host_}
Bufs(m) == DevBufs(m) \cup HostBufs(m)

(***************************************************************************)
(* The owning assembler fills the arrays after construction: a matrix      *)
(* holding the triplets trip, the host mirror in sync with the device.     *)
(***************************************************************************)
Populate(r, trip) ==
  LET m == r.obj
      rowsOf == [k \in Range0(m.nnz) |-> trip[k][1]]
      colsOf == [k \in Range0(m.nnz) |-> trip[k][2]]
      valsOf == [k \in Range0(m.nnz) |-> trip[k][3]]
  IN  [h \in DOMAIN r.heap |->
         IF h \in {m.iRow_, m.iRow_host_} THEN rowsOf
         ELSE IF h \in {m.jCol_, m.jCol_host_} THEN colsOf
         ELSE IF h \in {m.values_, m.values_host_} THEN valsOf
         ELSE r.heap[h]]

\* the same before the first copyToDev: only the host arrays are filled
PopulateHost(r, trip) ==
  LET m == r.obj
  IN  [h \in DOMAIN r.heap |->
         IF h = m.iRow_host_ THEN [k \in Range0(m.nnz) |-> trip[k][1]]
         ELSE IF h = m.jCol_host_ THEN [k \in Range0(m.nnz) |-> trip[k][2]]
         ELSE IF h = m.values_host_ THEN [k \in Range0(m.nnz) |-> trip[k][3]]
         ELSE r.heap[h]]

\* all arrays of n triplets of a rows x cols matrix with values in V
Triplets(rows, cols, n, V) ==
  [Range0(n) -> (Range0(rows) \X Range0(cols) \X V)]

\* the triplets of a symmetric matrix: upper triangle only
UpperTriplets(rows, n, V) ==
  {t \in Triplets(rows, rows, n, V) : \A k \in Range0(n) : t[k][1] <= t[k][2]}

\* no call has been made yet
NoCall == [op |-> "none"]

\* no second matrix exists yet
NoMatrix == [cls |-> "none"]

(***************************************************************************)
(* hiopMatrixRajaSparseTriplet::timesVec (raw-pointer overload).           *)
(***************************************************************************)
RECURSIVE timesVecScatter(_, _, _, _, _, _)
timesVecScatter(m, h, y, alpha, x, k) ==
  IF k >= m.nnz THEN y
  ELSE LET irw == h[m.iRow_]
           jcl == h[m.jCol_]
           vls == h[m.values_]
       IN  timesVecScatter(m, h,
             [y EXCEPT ![irw[k]] = @ + alpha * x[jcl[k]] * vls[k]],
             alpha, x, k + 1)

\* the product with the scaling of y by beta left out
timesVec_noScale(m, h, beta, y, alpha, x) ==
  timesVecScatter(m, h, y, alpha, x, 0)

timesVec(m, h, beta, y, alpha, x) ==
  timesVecScatter(m, h, [i \in Range0(m.nrows) |-> y[i] * beta], alpha, x, 0)

(***************************************************************************)
(* hiopMatrixRajaSparseTriplet::transTimesVec (raw-pointer overload).      *)
(***************************************************************************)
\* the scatter phase storing each contribution instead of accumulating it
RECURSIVE transTimesVecScatter_assign(_, _, _, _, _, _)
transTimesVecScatter_assign(m, h, y, alpha, x, k) ==
  IF k >= m.nnz THEN y
  ELSE LET iRow == h[m.iRow_]
           jCol == h[m.jCol_]
           values == h[m.values_]
       IN  transTimesVecScatter_assign(m, h,
             [y EXCEPT ![jCol[k]] = alpha * x[iRow[k]] * values[k]],
             alpha, x, k + 1)

RECURSIVE transTimesVecScatter(_, _, _, _, _, _)
transTimesVecScatter(m, h, y, alpha, x, k) ==
  IF k >= m.nnz THEN y
  ELSE LET iRow == h[m.iRow_]
           jCol == h[m.jCol_]
           values == h[m.values_]
       IN  transTimesVecScatter(m, h,
             [y EXCEPT ![jCol[k]] = @ + alpha * x[iRow[k]] * values[k]],
             alpha, x, k + 1)

\* the transposed product with the scaling of y by beta left out
transTimesVec_noScale(m, h, beta, y, alpha, x) ==
  transTimesVecScatter(m, h, y, alpha, x, 0)

transTimesVec(m, h, beta, y, alpha, x) ==
  transTimesVecScatter(m, h, [i \in Range0(m.ncols) |-> y[i] * beta],
                       alpha, x, 0)

(***************************************************************************)
(* hiopMatrixRajaSymSparseTriplet::timesVec (raw-pointer overload).  The   *)
(* atomic reference yy is bound to y[iRow[i]] and both additions go        *)
(* through it.                                                             *)
(***************************************************************************)
RECURSIVE Sym_timesVecScatter(_, _, _, _, _, _)
Sym_timesVecScatter(m, h, y, alpha, x, k) ==
  IF k >= m.nnz THEN y
  ELSE LET iRow == h[m.iRow_]
           jCol == h[m.jCol_]
           values == h[m.values_]
           yy == iRow[k]
           y1 == [y EXCEPT ![yy] = @ + alpha * x[jCol[k]] * values[k]]
           y2 == IF iRow[k] # jCol[k]
                 THEN [y1 EXCEPT ![yy] = @ + alpha * x[iRow[k]] * values[k]]
                 ELSE y1
       IN  Sym_timesVecScatter(m, h, y2, alpha, x, k + 1)

Sym_timesVec(m, h, beta, y, alpha, x) ==
  Sym_timesVecScatter(m, h, [i \in Range0(m.nrows) |-> y[i] * beta],
                      alpha, x, 0)

(***************************************************************************)
(* The matrix-vector products as operations on the matrix A.               *)
(***************************************************************************)
\* the vectors handed to the products: x a ramp or an alternation, y a ramp
XVecs(n) == {[i \in Range0(n) |-> 1 + i], [i \in Range0(n) |-> 2 - (i % 2)]}
YVecs(n) == {[i \in Range0(n) |-> 1 + i]}

\* timesVec called on the general matrix A with scalars drawn from the given
\* sets; track tells whether the call before it is remembered in prev
TimesVecOp(scalars, track) ==
  /\ A.cls = "General"
  /\ \E sc \in scalars, x \in XVecs(A.ncols),
        y \in YVecs(A.nrows) :
       call' = [op |-> "timesVec", beta |-> sc[1], alpha |-> sc[2],
                x |-> x, y |-> y,
                yout |-> timesVec(A, heap, sc[1], y, sc[2], x)]
  /\ prev' = IF track THEN call ELSE prev
  /\ UNCHANGED <<build, heap, A, B>>

TransTimesVecOp(scalars, track) ==
  /\ \E sc \in scalars, x \in XVecs(A.nrows),
        y \in YVecs(A.ncols) :
       call' = [op |-> "transTimesVec", beta |-> sc[1], alpha |-> sc[2],
                x |-> x, y |-> y,
                yout |-> transTimesVec(A, heap, sc[1], y, sc[2], x)]
  /\ prev' = IF track THEN call ELSE prev
  /\ UNCHANGED <<build, heap, A, B>>

TimesVec == TimesVecOp(Scalars, FALSE)

TransTimesVec == TransTimesVecOp(Scalars, FALSE)

SymTimesVec ==
  /\ A.cls = "Sym"
  /\ A.ncols = A.nrows
  /\ \E sc \in Scalars, x \in XVecs(A.ncols),
        y \in YVecs(A.nrows) :
       call' = [op |-> "Sym_timesVec", beta |-> sc[1], alpha |-> sc[2],
                x |-> x, y |-> y,
                yout |-> Sym_timesVec(A, heap, sc[1], y, sc[2], x)]
  /\ UNCHANGED <<build, heap, A, B, prev>>

\* the plain products u = A*x and w = A^T*y, each remembering the call
\* made before it
TimesVecPlain == TimesVecOp(PlainScalars, TRUE)

TransTimesVecPlain == TransTimesVecOp(PlainScalars, TRUE)

(***************************************************************************)
(* Specification of the matrix-vector products: A is any general matrix    *)
(* or any symmetric (upper-triangle) matrix within the bounds.             *)
(***************************************************************************)
VecConfigs == {<<FALSE, "HOST">>, <<TRUE, "DEVICE">>}

InitMat(classes) ==
  /\ \E cfg \in VecConfigs :
       /\ build = [gpu |-> cfg[1], deep |-> FALSE]
       /\ \E cls \in classes, rows \in 0 .. MaxRows,
             cols \in 0 .. MaxCols, nz \in 0 .. MaxNnz :
            /\ cls = "Sym" => rows = cols
            /\ nz = EffNnz(rows, cols, nz)
            /\ LET r == hiopMatrixRajaSparseTriplet(<<>>, cls, rows, cols, nz,
                                                    cfg[2], cfg[1], 0)
               IN  /\ A = r.obj
                   /\ \E trip \in (IF cls = "Sym"
                                   THEN UpperTriplets(rows, nz, Vals)
                                   ELSE Triplets(rows, cols, nz, Vals)) :
                        heap = Populate(r, trip)
  /\ B = NoMatrix
  /\ call = NoCall
  /\ prev = NoCall

InitVec == InitMat({"General", "Sym"})

NextVec == TimesVec \/ TransTimesVec \/ SymTimesVec

SpecVec == InitVec /\ [][NextVec]_vars

\* the adjoint pair: plain products of one general matrix, one after the other
InitAdj == InitMat({"General"})

NextAdj == TimesVecPlain \/ TransTimesVecPlain

SpecAdj == InitAdj /\ [][NextAdj]_vars

(***************************************************************************)
(* RowStartsInfo and hiopMatrixRajaSparseTriplet::allocAndBuildRowStarts.  *)
(* row_starts_host holds the id of the idx_start_ array of the index.      *)
(***************************************************************************)
\* values an uninitialized int may hold
JunkVals == {0, 7}

deallocate(h, id) == [i \in (DOMAIN h) \ {id} |-> h[i]]

\* RowStartsInfo::RowStartsInfo: idx_start_ of num_rows_+1 uninitialized ints
RowStartsInfo(h, n_rows, junk) == allocate(h, n_rows + 1, junk)

\* the inner while loop: advance the cursor over the triplets of row r
RECURSIVE AdvanceCursor(_, _, _, _)
AdvanceCursor(rowsArr, nz, it, r) ==
  IF it < nz /\ rowsArr[it] = r
  THEN AdvanceCursor(rowsArr, nz, it + 1, r)
  ELSE it

\* the deep check made on every triplet the cursor walks over
WalkedSorted(rowsArr, colsArr, from, to) ==
  \A it \in from .. (to - 1) :
    it >= 1 =>
      /\ rowsArr[it - 1] <= rowsArr[it]
      /\ (rowsArr[it - 1] = rowsArr[it] => colsArr[it - 1] < colsArr[it])

\* the for loop over i = 1 .. nrows on the host-mirror arrays iRow_host_ and
\* jCol_host_; idx is the host index under construction
RECURSIVE BuildLoop(_, _, _, _, _, _, _, _, _)
BuildLoop(rowsArr, colsArr, nrows, nz, deep, idx, i, it, sorted) ==
  IF i > nrows THEN [idx |-> idx, it |-> it, sorted |-> sorted]
  ELSE LET it2 == AdvanceCursor(rowsArr, nz, it, i - 1)
       IN  BuildLoop(rowsArr, colsArr, nrows, nz, deep,
                     [idx EXCEPT ![i] = idx[i - 1] + (it2 - it)],
                     i + 1, it2,
                     sorted /\ (deep => WalkedSorted(rowsArr, colsArr, it, it2)))

\* result: ok (no assertion failed), the heap, and the index returned
allocAndBuildRowStarts(m, h, junk, deep) ==
  LET rsi     == NextId(h)
      h1      == RowStartsInfo(h, m.nrows, junk)
      rsi_dev == NextId(h1)
      h2      == RowStartsInfo(h1, m.nrows, junk)
  IN  IF m.nrows <= 0
      THEN [ok |-> TRUE, heap |-> deallocate(h2, rsi), rsi |-> rsi_dev]
      ELSE LET b  == BuildLoop(h[m.iRow_host_], h[m.jCol_host_], m.nrows,
                               m.nnz, deep,
                               [[k \in 0 .. m.nrows |-> junk] EXCEPT ![0] = 0],
                               1, 0, TRUE)
               h3 == [h2 EXCEPT ![rsi] = b.idx]
               h4 == copy(h3, rsi_dev, rsi)
           IN  [ok   |-> b.it = m.nnz /\ b.sorted,
                heap |-> deallocate(h4, rsi),
                rsi  |-> rsi_dev]

(***************************************************************************)
(* The dense matrix W (an external operand): a flat row-major buffer seen  *)
(* through RAJA::View<double, RAJA::Layout<2>> WM(buffer, m, n).           *)
(***************************************************************************)
WMidx(W, i, j) == i * W.n + j

WMadd(W, i, j, v) == [W EXCEPT !.buf[WMidx(W, i, j)] = @ + v]

\* the division of doubles values[k] / DM[...]; exact on the values used
DivD(v, d) == v \div d

(***************************************************************************)
(* hiopMatrixRajaSparseTriplet::addMDinvMtransToDiagBlockOfSymDeMatUTri.   *)
(***************************************************************************)
\* the diagonal term: loop over the triplets k of row i
RECURSIVE Mtrans_diag(_, _, _, _, _, _)
Mtrans_diag(m, h, DM, k, kend, acc) ==
  IF k >= kend THEN acc
  ELSE LET jCol == h[m.jCol_]
           values == h[m.values_]
       IN  Mtrans_diag(m, h, DM, k + 1, kend,
                       acc + DivD(values[k], DM[jCol[k]]) * values[k])

\* the merge-join advancing the wrong cursor when the columns differ
RECURSIVE Mtrans_merge_wrongCursor(_, _, _, _, _, _, _, _)
Mtrans_merge_wrongCursor(m, h, DM, ki, kiend, kj, kjend, acc) ==
  IF ~(ki < kiend /\ kj < kjend) THEN acc
  ELSE LET jCol == h[m.jCol_]
           values == h[m.values_]
       IN  IF jCol[ki] = jCol[kj]
           THEN Mtrans_merge_wrongCursor(m, h, DM, ki + 1, kiend, kj + 1,
                  kjend, acc + DivD(values[ki], DM[jCol[ki]]) * values[kj])
           ELSE IF jCol[ki] > jCol[kj]
                THEN Mtrans_merge_wrongCursor(m, h, DM, ki + 1, kiend, kj,
                                              kjend, acc)
                ELSE Mtrans_merge_wrongCursor(m, h, DM, ki, kiend, kj + 1,
                                              kjend, acc)

\* the merge-join of row i (cursor ki) and row j (cursor kj)
RECURSIVE Mtrans_merge(_, _, _, _, _, _, _, _)
Mtrans_merge(m, h, DM, ki, kiend, kj, kjend, acc) ==
  IF ~(ki < kiend /\ kj < kjend) THEN acc
  ELSE LET jCol == h[m.jCol_]
           values == h[m.values_]
       IN  IF jCol[ki] = jCol[kj]
           THEN Mtrans_merge(m, h, DM, ki + 1, kiend, kj + 1, kjend,
                  acc + DivD(values[ki], DM[jCol[ki]]) * values[kj])
           ELSE IF jCol[ki] < jCol[kj]
                THEN Mtrans_merge(m, h, DM, ki + 1, kiend, kj, kjend, acc)
                ELSE Mtrans_merge(m, h, DM, ki, kiend, kj + 1, kjend, acc)

\* the loop over j = i+1 .. num_rows-1
RECURSIVE Mtrans_cols(_, _, _, _, _, _, _, _, _)
Mtrans_cols(m, h, DM, alpha, rs, cs, W, i, j) ==
  IF j >= m.nrows THEN W
  ELSE LET idx_start == h[m.row_starts_host]
           acc == Mtrans_merge(m, h, DM, idx_start[i], idx_start[i + 1],
                               idx_start[j], idx_start[j + 1], 0)
       IN  Mtrans_cols(m, h, DM, alpha, rs, cs,
                       WMadd(W, i + rs, j + cs, alpha * acc), i, j + 1)

\* the forall over the rows i
RECURSIVE Mtrans_rows(_, _, _, _, _, _, _, _)
Mtrans_rows(m, h, DM, alpha, rs, cs, W, i) ==
  IF i >= m.nrows THEN W
  ELSE LET idx_start == h[m.row_starts_host]
           acc == Mtrans_diag(m, h, DM, idx_start[i], idx_start[i + 1], 0)
           W1  == WMadd(W, i + rs, i + cs, alpha * acc)
       IN  Mtrans_rows(m, h, DM, alpha, rs, cs,
                       Mtrans_cols(m, h, DM, alpha, rs, cs, W1, i, i + 1),
                       i + 1)

\* m already holds its row-start index
addMDinvMtransToDiagBlockOfSymDeMatUTri(m, h, rowAndCol_dest_start, alpha, DM, W) ==
  Mtrans_rows(m, h, DM, alpha, rowAndCol_dest_start, rowAndCol_dest_start,
              W, 0)

(***************************************************************************)
(* Operands of the weighted Gram kernels.                                  *)
(***************************************************************************)
\* values stored in the matrices handed to the Gram kernels
GramVals == {2, 0 - 4}

\* strictly ascending in (row, col): sorted and free of duplicates
RowMajorBefore(s, t) == s[1] < t[1] \/ (s[1] = t[1] /\ s[2] < t[2])

\* the sets of n positions of a rows x cols matrix
PosSets(rows, cols, n) ==
  {S \in SUBSET (Range0(rows) \X Range0(cols)) : Cardinality(S) = n}

\* the positions of S in row-major order
Ordered(S) ==
  [k \in Range0(Cardinality(S)) |->
     CHOOSE p \in S : Cardinality({q \in S : RowMajorBefore(q, p)}) = k]

\* the sorted, duplicate-free triplet arrays with value array in valArrays
SortedTriplets(rows, cols, n, valArrays) ==
  {[k \in Range0(n) |-> <<Ordered(S)[k][1], Ordered(S)[k][2], v[k]>>] :
     S \in PosSets(rows, cols, n), v \in valArrays}

\* the kernels need a row holding two triplets next to a non-empty row
GramNnz == MaxNnz + 1

\* the vector D: all ones, all twos, or alternating
DVecs(n) == {[k \in Range0(n) |-> 1], [k \in Range0(n) |-> 2],
             [k \in Range0(n) |-> 1 + (k % 2)]}

GramAlphas == {3}

\* the square dense matrix W handed to the kernels, no two entries equal
WDim == MaxRows + 1

DenseW == [m |-> WDim, n |-> WDim,
           buf |-> [k \in Range0(WDim * WDim) |-> 100 + k]]

\* the content of a fresh index matters only if the build leaves it as is
JunkFor(m) ==
  IF m.row_starts_host = NULL /\ m.nrows <= 0 THEN JunkVals ELSE {0}

\* the index built on every call, whether one is stored or not
EnsureRowStarts_rebuild(m, h, junk, deep) ==
  allocAndBuildRowStarts(m, h, junk, deep)

\* lazily build the row-start index of m
EnsureRowStarts(m, h, junk, deep) ==
  IF m.row_starts_host = NULL
  THEN allocAndBuildRowStarts(m, h, junk, deep)
  ELSE [ok |-> TRUE, heap |-> h, rsi |-> m.row_starts_host]

AddMDinvMtrans ==
  \E start \in 0 .. WDim, alpha \in GramAlphas, D \in DVecs(A.ncols),
     junk \in JunkFor(A) :
    /\ start + A.nrows <= DenseW.m
    /\ start + A.nrows <= DenseW.n
    /\ LET r == EnsureRowStarts(A, heap, junk, build.deep)
       IN  IF r.ok
           THEN /\ A' = [A EXCEPT !.row_starts_host = r.rsi]
                /\ heap' = r.heap
                /\ call' = [op |-> "addMDinvMtransToDiagBlockOfSymDeMatUTri",
                            outcome |-> "ok", start |-> start,
                            alpha |-> alpha, D |-> D, W |-> DenseW,
                            Wout |-> addMDinvMtransToDiagBlockOfSymDeMatUTri(
                                       A', heap', start, alpha, D, DenseW)]
           ELSE /\ call' = [op |-> "addMDinvMtransToDiagBlockOfSymDeMatUTri",
                            outcome |-> "abort"]
                /\ UNCHANGED <<A, heap>>
    /\ UNCHANGED <<build, B, prev>>

(***************************************************************************)
(* Specification of the diagonal-block Gram kernel: A is any matrix with   *)
(* triplets sorted by (row, col) and free of duplicates.                   *)
(***************************************************************************)
GramConfigs == {<<FALSE, FALSE, "HOST">>, <<TRUE, TRUE, "DEVICE">>}

InitGram ==
  /\ \E cfg \in GramConfigs :
       /\ build = [gpu |-> cfg[1], deep |-> cfg[2]]
       /\ \E rows \in 0 .. MaxRows, cols \in 0 .. MaxCols, nz \in 0 .. GramNnz :
            /\ nz = EffNnz(rows, cols, nz)
            /\ LET r == hiopMatrixRajaSparseTriplet(<<>>, "General", rows,
                                                    cols, nz, cfg[3], cfg[1], 0)
               IN  /\ A = r.obj
                   /\ \E trip \in SortedTriplets(rows, cols, nz,
                                                [Range0(nz) -> GramVals]) :
                        heap = Populate(r, trip)
  /\ B = NoMatrix
  /\ call = NoCall
  /\ prev = NoCall

NextGram == AddMDinvMtrans

SpecGram == InitGram /\ [][NextGram]_vars

(***************************************************************************)
(* hiopMatrixRajaSparseTriplet::addMDinvNtransToSymDeMatUTri, M1 = this.   *)
(***************************************************************************)
\* the merge-join stopping at the first common column
RECURSIVE Ntrans_merge_firstMatchOnly(_, _, _, _, _, _, _, _, _)
Ntrans_merge_firstMatchOnly(m1, m2, h, DM, ki, kiend, kj, kjend, acc) ==
  IF ~(ki < kiend /\ kj < kjend) THEN acc
  ELSE LET M1jCol == h[m1.jCol_]
           M2jCol == h[m2.jCol_]
           M1values == h[m1.values_]
           M2values == h[m2.values_]
           jCol == h[m1.jCol_]
       IN  IF M1jCol[ki] = M2jCol[kj]
           THEN acc + DivD(M1values[ki], DM[jCol[ki]]) * M2values[kj]
           ELSE IF M1jCol[ki] < M2jCol[kj]
                THEN Ntrans_merge_firstMatchOnly(m1, m2, h, DM, ki + 1, kiend,
                                                 kj, kjend, acc)
                ELSE Ntrans_merge_firstMatchOnly(m1, m2, h, DM, ki, kiend,
                                                 kj + 1, kjend, acc)

\* the merge-join of row i of M1 (cursor ki) and row j of M2 (cursor kj)
RECURSIVE Ntrans_merge(_, _, _, _, _, _, _, _, _)
Ntrans_merge(m1, m2, h, DM, ki, kiend, kj, kjend, acc) ==
  IF ~(ki < kiend /\ kj < kjend) THEN acc
  ELSE LET M1jCol == h[m1.jCol_]
           M2jCol == h[m2.jCol_]
           M1values == h[m1.values_]
           M2values == h[m2.values_]
           jCol == h[m1.jCol_]
       IN  IF M1jCol[ki] = M2jCol[kj]
           THEN Ntrans_merge(m1, m2, h, DM, ki + 1, kiend, kj + 1, kjend,
                  acc + DivD(M1values[ki], DM[jCol[ki]]) * M2values[kj])
           ELSE IF M1jCol[ki] < M2jCol[kj]
                THEN Ntrans_merge(m1, m2, h, DM, ki + 1, kiend, kj, kjend, acc)
                ELSE Ntrans_merge(m1, m2, h, DM, ki, kiend, kj + 1, kjend, acc)

\* the loop over the rows j of M2
RECURSIVE Ntrans_cols(_, _, _, _, _, _, _, _, _, _)
Ntrans_cols(m1, m2, h, DM, alpha, rs, cs, W, i, j) ==
  IF j >= m2.nrows THEN W
  ELSE LET M1_idx_start == h[m1.row_starts_host]
           M2_idx_start == h[m2.row_starts_host]
           acc == Ntrans_merge(m1, m2, h, DM,
                               M1_idx_start[i], M1_idx_start[i + 1],
                               M2_idx_start[j], M2_idx_start[j + 1], 0)
       IN  Ntrans_cols(m1, m2, h, DM, alpha, rs, cs,
                       WMadd(W, i + rs, j + cs, alpha * acc), i, j + 1)

\* the forall over the rows i of M1
RECURSIVE Ntrans_rows(_, _, _, _, _, _, _, _, _)
Ntrans_rows(m1, m2, h, DM, alpha, rs, cs, W, i) ==
  IF i >= m1.nrows THEN W
  ELSE Ntrans_rows(m1, m2, h, DM, alpha, rs, cs,
                   Ntrans_cols(m1, m2, h, DM, alpha, rs, cs, W, i, 0), i + 1)

\* the deep check made before each write: no element below the diagonal
NtransUpperOnly(m1, m2, rs, cs) ==
  \A i \in Range0(m1.nrows), j \in Range0(m2.nrows) : i + rs <= j + cs

\* m1 and m2 already hold their row-start indexes
addMDinvNtransToSymDeMatUTri(m1, m2, h, row_dest_start, col_dest_start, alpha, DM, W) ==
  Ntrans_rows(m1, m2, h, DM, alpha, row_dest_start, col_dest_start, W, 0)

\* value arrays of M1 and of M2 in the two-matrix kernel
PairVals1(n) == {[k \in Range0(n) |-> 2 * (k + 1)]}
PairVals2(n) == {[k \in Range0(n) |-> 3 + k]}

\* the vector D in the two-matrix kernel: alternating ones and twos
PairDVecs(n) == {[k \in Range0(n) |-> 1 + (k % 2)]}

\* where the block is placed in W: <<row_dest_start, col_dest_start>>;
\* the kernel is called once, on a pair of matrices without index
Placements == {<<0, 0>>, <<0, 1>>, <<1, 0>>}

\* the kernel called on M1 = A and M2 = B with a placement drawn from pls
AddMDinvNtransAt(pls) ==
  \E pl \in pls, alpha \in GramAlphas, D \in PairDVecs(A.ncols),
     junk1 \in JunkFor(A), junk2 \in JunkFor(B) :
    /\ B.cls # "none"
    /\ A.ncols = B.ncols
    /\ pl[1] + A.nrows <= DenseW.m
    /\ pl[2] + B.nrows <= DenseW.n
    /\ LET r1 == EnsureRowStarts(A, heap, junk1, build.deep)
       IN  IF ~r1.ok
           THEN /\ call' = [op |-> "addMDinvNtransToSymDeMatUTri",
                            outcome |-> "abort"]
                /\ UNCHANGED <<A, B, heap>>
           ELSE /\ A' = [A EXCEPT !.row_starts_host = r1.rsi]
                /\ LET r2 == EnsureRowStarts(B, r1.heap, junk2, build.deep)
                   IN  IF ~r2.ok
                       THEN /\ call' = [op |-> "addMDinvNtransToSymDeMatUTri",
                                        outcome |-> "abort"]
                            /\ heap' = r1.heap
                            /\ UNCHANGED B
                       ELSE /\ B' = [B EXCEPT !.row_starts_host = r2.rsi]
                            /\ heap' = r2.heap
                            /\ call' =
                                 IF build.deep
                                    /\ ~NtransUpperOnly(A', B', pl[1], pl[2])
                                 THEN [op |-> "addMDinvNtransToSymDeMatUTri",
                                       outcome |-> "abort"]
                                 ELSE [op |-> "addMDinvNtransToSymDeMatUTri",
                                       outcome |-> "ok", row_start |-> pl[1],
                                       col_start |-> pl[2], alpha |-> alpha,
                                       D |-> D, W |-> DenseW,
                                       Wout |-> addMDinvNtransToSymDeMatUTri(
                                                  A', B', heap', pl[1], pl[2],
                                                  alpha, D, DenseW)]
    /\ UNCHANGED <<build, prev>>

AddMDinvNtrans == call.op = "none" /\ AddMDinvNtransAt(Placements)

(***************************************************************************)
(* Specification of the two-matrix Gram kernel: M1 = A and M2 = B are      *)
(* sorted, duplicate-free MaxRows x MaxCols matrices (rows may be empty).  *)
(***************************************************************************)
InitPair ==
  /\ \E deep \in BOOLEAN :
       /\ build = [gpu |-> FALSE, deep |-> deep]
       /\ \E rows1 \in {MaxRows}, rows2 \in {MaxRows},
             cols \in {MaxCols}, nz1 \in 0 .. MaxNnz, nz2 \in 0 .. MaxNnz :
            /\ nz1 = EffNnz(rows1, cols, nz1)
            /\ nz2 = EffNnz(rows2, cols, nz2)
            /\ LET r1 == hiopMatrixRajaSparseTriplet(<<>>, "General", rows1,
                           cols, nz1, "HOST", FALSE, 0)
                   r2 == hiopMatrixRajaSparseTriplet(r1.heap, "General", rows2,
                           cols, nz2, "HOST", FALSE, 0)
               IN  /\ A = r1.obj
                   /\ B = r2.obj
                   /\ \E t1 \in SortedTriplets(rows1, cols, nz1, PairVals1(nz1)),
                         t2 \in SortedTriplets(rows2, cols, nz2,
                                               PairVals2(nz2)) :
                        heap = Populate([obj |-> r2.obj,
                                         heap |-> Populate(
                                            [obj |-> r1.obj, heap |-> r2.heap],
                                            t1)],
                                        t2)
  /\ call = NoCall
  /\ prev = NoCall

NextPair == AddMDinvNtrans

SpecPair == InitPair /\ [][NextPair]_vars

(***************************************************************************)
(* Host/device synchronisation: copyToDev and copyFromDev.                 *)
(***************************************************************************)
copyToDev(m, h) ==
  IF m.mem_space_ = "DEVICE"
  THEN copy(copy(copy(h, m.iRow_, m.iRow_host_), m.jCol_, m.jCol_host_),
            m.values_, m.values_host_)
  ELSE h

\* copyFromDev copying from the host mirror to the device
copyFromDev_toDevice(m, h) == copyToDev(m, h)

copyFromDev(m, h) ==
  IF m.mem_space_ = "DEVICE"
  THEN copy(copy(copy(h, m.iRow_host_, m.iRow_), m.jCol_host_, m.jCol_),
            m.values_host_, m.values_)
  ELSE h

(***************************************************************************)
(* checkIndexesAreOrdered (HIOP_DEEPCHECKS builds only): refreshes the     *)
(* host mirror, then scans it.                                             *)
(***************************************************************************)
checkIndexesAreOrdered(m, h) ==
  LET h1 == copyFromDev(m, h)
      iRow_host == h1[m.iRow_host_]
      jCol_host == h1[m.jCol_host_]
  IN  [heap |-> h1,
       ordered |->
         \A i \in 1 .. (m.nnz - 1) :
           /\ ~(iRow_host[i] < iRow_host[i - 1])
           /\ (iRow_host[i] = iRow_host[i - 1]
                 => ~(jCol_host[i] < jCol_host[i - 1]))]

(***************************************************************************)
(* new_copy of both classes; the general class checks the order of the     *)
(* indexes first in HIOP_DEEPCHECKS builds.                                *)
(***************************************************************************)
\* the copy is the source object itself: no buffer is duplicated
new_copy_shallow(m, h, deep, gpu, junk) ==
  [ok |-> TRUE, obj |-> m, heap |-> h]

new_copy(m, h, deep, gpu, junk) ==
  LET chk == IF deep /\ m.cls = "General"
             THEN checkIndexesAreOrdered(m, h)
             ELSE [heap |-> h, ordered |-> TRUE]
      r   == hiopMatrixRajaSparseTriplet(chk.heap, m.cls, m.nrows, m.ncols,
                                         m.nnz, m.mem_space_, gpu, junk)
      c   == r.obj
      h1  == copy(r.heap, c.iRow_, m.iRow_)
      h2  == copy(h1, c.jCol_, m.jCol_)
      h3  == copy(h2, c.values_, m.values_)
      h4  == copy(h3, c.iRow_host_, m.iRow_host_)
      h5  == copy(h4, c.jCol_host_, m.jCol_host_)
      h6  == copy(h5, c.values_host_, m.values_host_)
  IN  IF chk.ordered
      THEN [ok |-> TRUE, obj |-> c, heap |-> h6]
      ELSE [ok |-> FALSE, obj |-> NoMatrix, heap |-> chk.heap]

(***************************************************************************)
(* setToConstant, max_abs_value and isfinite work on the device array.     *)
(***************************************************************************)
setToConstant(m, h, c) ==
  [h EXCEPT ![m.values_] = [i \in Range0(m.nnz) |-> c]]

\* RAJA::ReduceMax norm(0.0); norm.max(fabs(values[i])) for i in [0, nnz)
RECURSIVE ReduceMax(_, _, _, _)
ReduceMax(values, i, nz, norm) ==
  IF i >= nz THEN norm
  ELSE ReduceMax(values, i + 1, nz,
                 IF norm < Abs(values[i]) THEN Abs(values[i]) ELSE norm)

\* the reduction without fabs
RECURSIVE ReduceMax_signed(_, _, _, _)
ReduceMax_signed(values, i, nz, norm) ==
  IF i >= nz THEN norm
  ELSE ReduceMax_signed(values, i + 1, nz,
                        IF norm < values[i] THEN values[i] ELSE norm)

\* max_abs_value without the absolute value
max_abs_value_signed(m, h) == ReduceMax_signed(h[m.values_], 0, m.nnz, 0)

max_abs_value(m, h) == ReduceMax(h[m.values_], 0, m.nnz, 0)

\* markers standing for the non-finite doubles
NaN == 999
Inf == 1000
NonFinite == {NaN, Inf, 0 - Inf}

std_isfinite(v) == v \notin NonFinite

\* RAJA::ReduceSum any(0); any += 1 for each non-finite values[i]
RECURSIVE ReduceSum(_, _, _, _)
ReduceSum(values, i, nz, any) ==
  IF i >= nz THEN any
  ELSE ReduceSum(values, i + 1, nz,
                 IF ~std_isfinite(values[i]) THEN any + 1 ELSE any)

isfinite(m, h, deep) ==
  LET chk == IF deep THEN checkIndexesAreOrdered(m, h)
             ELSE [heap |-> h, ordered |-> TRUE]
  IN  [ok |-> chk.ordered, heap |-> chk.heap,
       result |-> ReduceSum(chk.heap[m.values_], 0, m.nnz, 0) = 0]

(***************************************************************************)
(* Operations on the matrix A and on its copy B.                           *)
(***************************************************************************)
\* the matrix named by target t
Mat(t) == IF t = "A" THEN A ELSE B

\* the process is still running: no assertion has failed
Alive == IF "outcome" \in DOMAIN call THEN call.outcome = "ok" ELSE TRUE

\* the buffers of a matrix as the heap holds them
Snapshot(m, h) == [b \in Bufs(m) |-> h[b]]

NewCopy ==
  /\ Alive
  /\ B = NoMatrix
  /\ \E junk \in JunkVals :
       LET r == new_copy(A, heap, build.deep, build.gpu, junk)
       IN  /\ heap' = r.heap
           /\ B' = r.obj
           /\ call' = [op |-> "new_copy", target |-> "A",
                       outcome |-> IF r.ok THEN "ok" ELSE "abort"]
  /\ UNCHANGED <<build, A, prev>>

SetToConstantOp(targets, consts) ==
  \E t \in targets, c \in consts :
    /\ Alive
    /\ Mat(t).cls # "none"
    /\ heap' = setToConstant(Mat(t), heap, c)
    /\ call' = [op |-> "setToConstant", target |-> t, outcome |-> "ok",
                c |-> c]
    /\ UNCHANGED <<build, A, B, prev>>

\* the owner of the matrix asks for its value array (copyFromDev, then the
\* host pointer) and writes v at position k
HostWriteOp(targets, vals) ==
  \E t \in targets, v \in vals :
    /\ Alive
    /\ Mat(t).cls # "none"
    /\ \E k \in Range0(Mat(t).nnz) :
         /\ heap' = [copyFromDev(Mat(t), heap)
                       EXCEPT ![Mat(t).values_host_][k] = v]
         /\ call' = [op |-> "hostWrite", target |-> t, outcome |-> "ok",
                     k |-> k, v |-> v]
    /\ UNCHANGED <<build, A, B, prev>>

CopyToDevOp(targets) ==
  \E t \in targets :
    /\ Alive
    /\ Mat(t).cls # "none"
    /\ heap' = copyToDev(Mat(t), heap)
    /\ call' = [op |-> "copyToDev", target |-> t, outcome |-> "ok"]
    /\ UNCHANGED <<build, A, B, prev>>

CopyFromDevOp(targets) ==
  \E t \in targets :
    /\ Alive
    /\ Mat(t).cls # "none"
    /\ heap' = copyFromDev(Mat(t), heap)
    /\ call' = [op |-> "copyFromDev", target |-> t, outcome |-> "ok"]
    /\ UNCHANGED <<build, A, B, prev>>

MaxAbsValueOp(targets) ==
  \E t \in targets :
    /\ Alive
    /\ Mat(t).cls # "none"
    /\ call' = [op |-> "max_abs_value", target |-> t, outcome |-> "ok",
                result |-> max_abs_value(Mat(t), heap)]
    /\ UNCHANGED <<build, heap, A, B, prev>>

IsFinite ==
  /\ Alive
  /\ LET r == isfinite(A, heap, build.deep)
     IN  /\ heap' = r.heap
         /\ call' = IF r.ok
                    THEN [op |-> "isfinite", target |-> "A", outcome |-> "ok",
                          result |-> r.result, before |-> Snapshot(A, heap)]
                    ELSE [op |-> "isfinite", target |-> "A",
                          outcome |-> "abort"]
  /\ UNCHANGED <<build, A, B, prev>>

(***************************************************************************)
(* Specification of copies and value updates: a populated matrix A of      *)
(* either class in each build, its copy B once new_copy has returned.      *)
(***************************************************************************)
MemConfigs == {<<FALSE, FALSE, "HOST">>, <<FALSE, TRUE, "DEVICE">>,
               <<TRUE, TRUE, "DEVICE">>, <<TRUE, FALSE, "UM">>}

Min(a, b) == IF a < b THEN a ELSE b

\* n triplets laid out row by row, values taken from valOf
Forward(cls, rows, cols, n, valOf) ==
  [k \in Range0(n) |->
     LET r == Min(k \div cols, rows - 1)
         c == k % cols
     IN  IF cls = "Sym" /\ c < r THEN <<c, r, valOf[k]>>
         ELSE <<r, c, valOf[k]>>]

\* the same triplets in the opposite order
Backward(cls, rows, cols, n, valOf) ==
  [k \in Range0(n) |-> Forward(cls, rows, cols, n, valOf)[n - 1 - k]]

InitMemWith(valArrays(_)) ==
  /\ \E cfg \in MemConfigs :
       /\ build = [gpu |-> cfg[1], deep |-> cfg[2]]
       /\ \E cls \in {"General", "Sym"}, rows \in {0, MaxRows},
             cols \in {0, MaxCols}, nz \in 0 .. MaxNnz :
            /\ cls = "Sym" => rows = cols
            /\ nz = EffNnz(rows, cols, nz)
            /\ LET r == hiopMatrixRajaSparseTriplet(<<>>, cls, rows, cols, nz,
                                                    cfg[3], cfg[1], 0)
               IN  /\ A = r.obj
                   /\ \E valOf \in valArrays(nz) :
                        \E trip \in {Forward(cls, rows, cols, nz, valOf),
                                     Backward(cls, rows, cols, nz, valOf)} :
                          \/ heap = Populate(r, trip)
                          \/ heap = PopulateHost(r, trip)
  /\ B = NoMatrix
  /\ call = NoCall
  /\ prev = NoCall

MemVals(n) == {[k \in Range0(n) |-> 1 + k]}

MemConsts == {0 - 2}

MemWrites == {5}

Both == {"A", "B"}

InitMem == InitMemWith(MemVals)

NextMem ==
  \/ NewCopy
  \/ SetToConstantOp(Both, MemConsts)
  \/ HostWriteOp(Both, MemWrites)
  \/ CopyToDevOp(Both)
  \/ CopyFromDevOp(Both)
  \/ MaxAbsValueOp(Both)

SpecMem == InitMem /\ [][NextMem]_vars

(***************************************************************************)
(* Specification of the finiteness test: the values of A may be NaN or     *)
(* Inf, from the start or written later by the owner.                      *)
(***************************************************************************)
FinVals(n) == {[k \in Range0(n) |-> 1 + k]} \cup
              {[k \in Range0(n) |-> IF k = j THEN NaN ELSE 1 + k] :
                 j \in Range0(n)}

FinWrites == {2, Inf}

InitFin == InitMemWith(FinVals)

NextFin ==
  \/ IsFinite
  \/ HostWriteOp({"A"}, FinWrites)
  \/ CopyToDevOp({"A"})
  \/ CopyFromDevOp({"A"})

SpecFin == InitFin /\ [][NextFin]_vars

(***************************************************************************)
(* addToSymDenseMatrixUpperTriangle and its transpose, both classes.       *)
(* Each returns ok (no assertion failed) and the matrix W it leaves.       *)
(***************************************************************************)
\* the block [rs, rs + nr) x [cs, cs + nc) lies inside the square matrix W
FitsIn(W, rs, nr, cs, nc) ==
  /\ rs >= 0 /\ rs + nr <= W.m
  /\ cs >= 0 /\ cs + nc <= W.n
  /\ W.n = W.m

\* the three assertions made on a destination cell (i, j)
CellUpper(W, i, j) == i < W.m /\ j < W.n /\ i >= 0 /\ j >= 0 /\ i <= j

\* general class: row and column read from the device arrays, the value
\* from the host mirror
RECURSIVE addLoop(_, _, _, _, _, _, _)
addLoop(m, h, row_start, col_start, alpha, W, it) ==
  IF it >= m.nnz THEN W
  ELSE LET i == h[m.iRow_][it] + row_start
           j == h[m.jCol_][it] + col_start
       IN  addLoop(m, h, row_start, col_start, alpha,
                   WMadd(W, i, j, alpha * h[m.values_host_][it]), it + 1)

addToSymDenseMatrixUpperTriangle(m, h, row_start, col_start, alpha, W, deep) ==
  [ok |-> /\ FitsIn(W, row_start, m.nrows, col_start, m.ncols)
          /\ deep => \A it \in Range0(m.nnz) :
                       CellUpper(W, h[m.iRow_][it] + row_start,
                                 h[m.jCol_][it] + col_start),
   W  |-> addLoop(m, h, row_start, col_start, alpha, W, 0)]

\* the transpose loop writing the cell (row + col_start, col + row_start)
RECURSIVE transAddLoop_swappedStarts(_, _, _, _, _, _, _)
transAddLoop_swappedStarts(m, h, row_start, col_start, alpha, W, it) ==
  IF it >= m.nnz THEN W
  ELSE LET i == h[m.jCol_][it] + col_start
           j == h[m.iRow_][it] + row_start
       IN  transAddLoop_swappedStarts(m, h, row_start, col_start, alpha,
             WMadd(W, i, j, alpha * h[m.values_][it]), it + 1)

\* general class, transpose: everything read from the device arrays
RECURSIVE transAddLoop(_, _, _, _, _, _, _)
transAddLoop(m, h, row_start, col_start, alpha, W, it) ==
  IF it >= m.nnz THEN W
  ELSE LET i == h[m.jCol_][it] + row_start
           j == h[m.iRow_][it] + col_start
       IN  transAddLoop(m, h, row_start, col_start, alpha,
                        WMadd(W, i, j, alpha * h[m.values_][it]), it + 1)

transAddToSymDenseMatrixUpperTriangle(m, h, row_start, col_start, alpha, W, deep) ==
  [ok |-> /\ FitsIn(W, row_start, m.ncols, col_start, m.nrows)
          /\ deep => \A it \in Range0(m.nnz) :
                       CellUpper(W, h[m.jCol_][it] + row_start,
                                 h[m.iRow_][it] + col_start),
   W  |-> transAddLoop(m, h, row_start, col_start, alpha, W, 0)]

\* symmetric class: atomic add of alpha * values[it] to WM(i, j)
RECURSIVE Sym_addLoop(_, _, _, _, _, _, _)
Sym_addLoop(m, h, row_start, col_start, alpha, W, it) ==
  IF it >= m.nnz THEN W
  ELSE LET i == h[m.iRow_][it] + row_start
           j == h[m.jCol_][it] + col_start
       IN  Sym_addLoop(m, h, row_start, col_start, alpha,
                       WMadd(W, i, j, alpha * h[m.values_][it]), it + 1)

\* the assertions of the symmetric class hold in every build with assert
Sym_cellsOk(m, h, row_start, col_start, W) ==
  \A it \in Range0(m.nnz) :
    /\ h[m.iRow_][it] <= h[m.jCol_][it]
    /\ CellUpper(W, h[m.iRow_][it] + row_start, h[m.jCol_][it] + col_start)

Sym_addToSymDenseMatrixUpperTriangle(m, h, row_start, col_start, alpha, W) ==
  [ok |-> /\ FitsIn(W, row_start, m.nrows, col_start, m.ncols)
          /\ Sym_cellsOk(m, h, row_start, col_start, W),
   W  |-> Sym_addLoop(m, h, row_start, col_start, alpha, W, 0)]

\* symmetric class, transpose: i and j as above, the write goes to WM(j, i)
RECURSIVE Sym_transAddLoop(_, _, _, _, _, _, _)
Sym_transAddLoop(m, h, row_start, col_start, alpha, W, it) ==
  IF it >= m.nnz THEN W
  ELSE LET i == h[m.iRow_][it] + row_start
           j == h[m.jCol_][it] + col_start
       IN  Sym_transAddLoop(m, h, row_start, col_start, alpha,
                            WMadd(W, j, i, alpha * h[m.values_][it]), it + 1)

Sym_transAddToSymDenseMatrixUpperTriangle(m, h, row_start, col_start, alpha, W) ==
  [ok |-> /\ FitsIn(W, row_start, m.ncols, col_start, m.nrows)
          /\ Sym_cellsOk(m, h, row_start, col_start, W),
   W  |-> Sym_transAddLoop(m, h, row_start, col_start, alpha, W, 0)]

\* the dense destination of the add operations
DenseDim == MaxRows + MaxCols

DenseDest == [m |-> DenseDim, n |-> DenseDim,
              buf |-> [k \in Range0(DenseDim * DenseDim) |-> 100 + k]]

\* a kernel of a GPU build that dereferences a host pointer distinct from
\* the device pointer either reads the host copy or faults
HostReadFaults(m, gpu) ==
  IF gpu /\ m.values_host_ # m.values_ THEN BOOLEAN ELSE {FALSE}

AddToSymDense ==
  \E row_start \in 0 .. 1, col_start \in 0 .. DenseDim, alpha \in GramAlphas,
     fault \in HostReadFaults(A, build.gpu /\ A.cls = "General") :
    /\ Alive
    /\ LET r == IF A.cls = "Sym"
                THEN Sym_addToSymDenseMatrixUpperTriangle(
                       A, heap, row_start, col_start, alpha, DenseDest)
                ELSE addToSymDenseMatrixUpperTriangle(
                       A, heap, row_start, col_start, alpha, DenseDest,
                       build.deep)
       IN  call' = IF r.ok /\ ~fault
                   THEN [op |-> "addToSymDenseMatrixUpperTriangle",
                         target |-> "A", outcome |-> "ok",
                         row_start |-> row_start, col_start |-> col_start,
                         alpha |-> alpha, W |-> DenseDest, Wout |-> r.W]
                   ELSE [op |-> "addToSymDenseMatrixUpperTriangle",
                         target |-> "A", outcome |-> "abort",
                         row_start |-> row_start, col_start |-> col_start]
    /\ UNCHANGED <<build, heap, A, B, prev>>

TransAddToSymDense ==
  \E row_start \in 0 .. 1, col_start \in 0 .. DenseDim, alpha \in GramAlphas :
    /\ Alive
    /\ LET r == IF A.cls = "Sym"
                THEN Sym_transAddToSymDenseMatrixUpperTriangle(
                       A, heap, row_start, col_start, alpha, DenseDest)
                ELSE transAddToSymDenseMatrixUpperTriangle(
                       A, heap, row_start, col_start, alpha, DenseDest,
                       build.deep)
       IN  call' = IF r.ok
                   THEN [op |-> "transAddToSymDenseMatrixUpperTriangle",
                         target |-> "A", outcome |-> "ok",
                         row_start |-> row_start, col_start |-> col_start,
                         alpha |-> alpha, W |-> DenseDest, Wout |-> r.W]
                   ELSE [op |-> "transAddToSymDenseMatrixUpperTriangle",
                         target |-> "A", outcome |-> "abort",
                         row_start |-> row_start, col_start |-> col_start]
    /\ UNCHANGED <<build, heap, A, B, prev>>

(***************************************************************************)
(* Specification of the add-to-dense operations: a matrix of either class  *)
(* with distinct positions, in each build; setToConstant and copyFromDev   *)
(* move the device arrays and the host mirror apart and back.              *)
(***************************************************************************)
\* the positions of a symmetric matrix lie in the upper triangle
UpperOnly(trip) == \A k \in DOMAIN trip : trip[k][1] <= trip[k][2]

InitDense ==
  /\ \E cfg \in MemConfigs :
       /\ build = [gpu |-> cfg[1], deep |-> cfg[2]]
       /\ \E cls \in {"General", "Sym"}, rows \in 1 .. MaxRows,
             cols \in 1 .. MaxCols, nz \in 0 .. MaxNnz :
            /\ cls = "Sym" => rows = cols
            /\ LET r == hiopMatrixRajaSparseTriplet(<<>>, cls, rows, cols, nz,
                                                    cfg[3], cfg[1], 0)
               IN  /\ A = r.obj
                   /\ \E trip \in SortedTriplets(rows, cols, nz, MemVals(nz)) :
                        /\ cls = "Sym" => UpperOnly(trip)
                        /\ heap = Populate(r, trip)
  /\ B = NoMatrix
  /\ call = NoCall
  /\ prev = NoCall

NextDense ==
  \/ AddToSymDense
  \/ TransAddToSymDense
  \/ SetToConstantOp({"A"}, MemConsts)
  \/ CopyFromDevOp({"A"})

SpecDense == InitDense /\ [][NextDense]_vars

(***************************************************************************)
(* hiopMatrixRajaSymSparseTriplet::startingAtAddSubDiagonalToStartingAt.   *)
(* The destination vector v is a zero-based array of vds elements.         *)
(***************************************************************************)
\* the loop selecting every diagonal triplet at or after diag_src_start
RECURSIVE subDiagLoop_noUpperEnd(_, _, _, _, _, _, _, _)
subDiagLoop_noUpperEnd(m, h, diag_src_start, alpha, v, vec_start, num_elems, itnz) ==
  IF itnz >= m.nnz THEN v
  ELSE LET row == h[m.iRow_][itnz]
       IN  subDiagLoop_noUpperEnd(m, h, diag_src_start, alpha,
             IF row = h[m.jCol_][itnz] /\ row >= diag_src_start
             THEN [v EXCEPT ![vec_start + row] = @ + alpha * h[m.values_][itnz]]
             ELSE v,
             vec_start, num_elems, itnz + 1)

RECURSIVE subDiagLoop(_, _, _, _, _, _, _, _)
subDiagLoop(m, h, diag_src_start, alpha, v, vec_start, num_elems, itnz) ==
  IF itnz >= m.nnz THEN v
  ELSE LET row == h[m.iRow_][itnz]
       IN  subDiagLoop(m, h, diag_src_start, alpha,
             IF /\ row = h[m.jCol_][itnz]
                /\ row >= diag_src_start /\ row < diag_src_start + num_elems
             THEN [v EXCEPT ![vec_start + row] = @ + alpha * h[m.values_][itnz]]
             ELSE v,
             vec_start, num_elems, itnz + 1)

\* the size of a zero-based array
SizeOf(v) == Cardinality(DOMAIN v)

\* ok: no assertion failed; v: the destination after the loop
startingAtAddSubDiagonalToStartingAt(m, h, diag_src_start, alpha, vd, vec_start, num_elems_in) ==
  LET num_elems == IF num_elems_in < 0 THEN SizeOf(vd) ELSE num_elems_in
      vds == SizeOf(vd)
      selected == {itnz \in Range0(m.nnz) :
                     /\ h[m.iRow_][itnz] = h[m.jCol_][itnz]
                     /\ h[m.iRow_][itnz] >= diag_src_start
                     /\ h[m.iRow_][itnz] < diag_src_start + num_elems}
      ok == /\ num_elems <= vds
            /\ diag_src_start >= 0
            /\ diag_src_start + num_elems <= m.nrows
            /\ \A itnz \in selected : h[m.iRow_][itnz] + vec_start < vds
  IN  [ok |-> ok,
       v  |-> IF ok
              THEN subDiagLoop(m, h, diag_src_start, alpha, vd, vec_start,
                               num_elems, 0)
              ELSE vd]

\* destination vectors: up to one element more than the matrix has rows
DestVecs == {[i \in Range0(n) |-> 10 + i] : n \in 1 .. (MaxRows + 1)}

StartingAtAddSubDiagonal ==
  \E diag_src_start \in 0 .. MaxRows, alpha \in GramAlphas, vd \in DestVecs,
     vec_start \in 0 .. 1, num_elems \in (0 - 1) .. MaxRows :
    /\ Alive
    /\ A.cls = "Sym"
    /\ LET r == startingAtAddSubDiagonalToStartingAt(
                  A, heap, diag_src_start, alpha, vd, vec_start, num_elems)
       IN  call' = [op |-> "startingAtAddSubDiagonalToStartingAt",
                    target |-> "A",
                    outcome |-> IF r.ok THEN "ok" ELSE "abort",
                    diag_src_start |-> diag_src_start, alpha |-> alpha,
                    dest |-> vd, dest_start |-> vec_start,
                    count |-> num_elems, destOut |-> r.v]
    /\ UNCHANGED <<build, heap, A, B, prev>>

(***************************************************************************)
(* Specification of the sub-diagonal extraction: a symmetric matrix with   *)
(* distinct upper-triangle positions.                                      *)
(***************************************************************************)
InitSubDiag ==
  /\ \E cfg \in VecConfigs :
       /\ build = [gpu |-> cfg[1], deep |-> FALSE]
       /\ \E rows \in 1 .. MaxRows, nz \in 0 .. GramNnz :
            LET r == hiopMatrixRajaSparseTriplet(<<>>, "Sym", rows, rows, nz,
                                                 cfg[2], cfg[1], 0)
            IN  /\ A = r.obj
                /\ \E trip \in SortedTriplets(rows, rows, nz, MemVals(nz)) :
                     /\ UpperOnly(trip)
                     /\ heap = Populate(r, trip)
  /\ B = NoMatrix
  /\ call = NoCall
  /\ prev = NoCall

NextSubDiag ==
  \/ StartingAtAddSubDiagonal
  \/ SetToConstantOp({"A"}, MemConsts)

SpecSubDiag == InitSubDiag /\ [][NextSubDiag]_vars

(***************************************************************************)
(* Lifetime of a matrix: alloc_clone, the destructor, and the row-start    *)
(* index kept in row_starts_host from its first use to the destructor.     *)
(***************************************************************************)
alloc_clone(m, h, gpu, junk) ==
  hiopMatrixRajaSparseTriplet(h, m.cls, m.nrows, m.ncols, m.nnz, m.mem_space_,
                              gpu, junk)

\* deallocate the buffers ids[k], ids[k+1], ... one after the other; freeing
\* a buffer that is not live is a fault
RECURSIVE release(_, _, _, _)
release(h, ids, k, ok) ==
  IF k > Len(ids) THEN [ok |-> ok, heap |-> h]
  ELSE release(deallocate(h, ids[k]), ids, k + 1, ok /\ ids[k] \in DOMAIN h)

\* delete row_starts_host: ~RowStartsInfo deallocates idx_start_; deleting a
\* null pointer does nothing
delete_row_starts_host(m) ==
  IF m.row_starts_host # NULL THEN <<m.row_starts_host>> ELSE <<>>

\* a destructor releasing the host arrays whatever the memory space is
destructor_alwaysMirror(m, h) ==
  LET ids == delete_row_starts_host(m)
               \o <<m.iRow_, m.jCol_, m.values_>>
               \o <<m.iRow_host_, m.jCol_host_, m.values_host_>>
      r   == release(h, ids, 1, TRUE)
  IN  [ok |-> r.ok, heap |-> r.heap, released |-> ids]

\* ~hiopMatrixRajaSparseTriplet: the deallocations in the order they are made
destructor(m, h) ==
  LET ids == delete_row_starts_host(m)
               \o <<m.iRow_, m.jCol_, m.values_>>
               \o (IF m.mem_space_ = "DEVICE"
                   THEN <<m.iRow_host_, m.jCol_host_, m.values_host_>>
                   ELSE <<>>)
      r   == release(h, ids, 1, TRUE)
  IN  [ok |-> r.ok, heap |-> r.heap, released |-> ids]

AllocClone ==
  /\ Alive
  /\ A.cls # "none"
  /\ B = NoMatrix
  /\ \E junk \in JunkVals :
       LET r == alloc_clone(A, heap, build.gpu, junk)
       IN  /\ heap' = r.heap
           /\ B' = r.obj
  /\ call' = [op |-> "alloc_clone", target |-> "A", outcome |-> "ok"]
  /\ UNCHANGED <<build, A, prev>>

\* delete of the matrix t; live is the set of buffers allocated before it
Destroy(targets) ==
  \E t \in targets :
    /\ Alive
    /\ Mat(t).cls # "none"
    /\ LET r == destructor(Mat(t), heap)
       IN  /\ heap' = r.heap
           /\ call' = [op |-> "destructor", target |-> t,
                       outcome |-> IF r.ok THEN "ok" ELSE "fault",
                       obj |-> Mat(t), released |-> r.released,
                       live |-> DOMAIN heap]
    /\ IF t = "A" THEN A' = NoMatrix /\ B' = B
                  ELSE B' = NoMatrix /\ A' = A
    /\ UNCHANGED <<build, prev>>

(***************************************************************************)
(* Specification of the lifetime: A is a sorted general matrix, B is made  *)
(* from it by new_copy or alloc_clone; both are used and then deleted.     *)
(***************************************************************************)
InitLife ==
  /\ \E cfg \in MemConfigs :
       /\ build = [gpu |-> cfg[1], deep |-> cfg[2]]
       /\ \E rows \in {0, MaxRows}, nz \in {0, MaxNnz} :
            /\ nz = EffNnz(rows, MaxCols, nz)
            /\ LET r == hiopMatrixRajaSparseTriplet(<<>>, "General", rows,
                          MaxCols, nz, cfg[3], cfg[1], 0)
               IN  /\ A = r.obj
                   /\ \E valOf \in MemVals(nz) :
                        heap = Populate(r, Forward("General", rows, MaxCols,
                                                   nz, valOf))
  /\ B = NoMatrix
  /\ call = NoCall
  /\ prev = NoCall

NextLife ==
  \/ (Alive /\ A.cls # "none" /\ AddMDinvMtrans)
  \/ (Alive /\ A.cls # "none" /\ B.cls # "none"
        /\ AddMDinvNtransAt({<<0, 0>>}))
  \/ (A.cls # "none" /\ NewCopy)
  \/ AllocClone
  \/ SetToConstantOp(Both, MemConsts)
  \/ MaxAbsValueOp({"A"})
  \/ (Alive /\ A.cls # "none" /\ TimesVecOp(PlainScalars, FALSE))
  \/ (Alive /\ A.cls # "none" /\ TransTimesVecOp(PlainScalars, FALSE))
  \/ (A.cls # "none" /\ IsFinite)
  \/ (A.cls # "none" /\ AddToSymDense)
  \/ Destroy(Both)

SpecLife == InitLife /\ [][NextLife]_vars

(***************************************************************************)
(* The operations triplet storage does not provide: timesMat,              *)
(* transTimesMat, timesMatTrans, addDiagonal (vector and scalar),          *)
(* addSubDiagonal, addMatrix and copyRowsFrom.  The body of each is        *)
(* assert(false && "..."): <cassert> makes it abort(), or nothing at all   *)
(* when the translation unit is compiled with NDEBUG.                      *)
(***************************************************************************)
UnsupportedOps == {"timesMat", "transTimesMat", "timesMatTrans",
                   "addDiagonal", "addDiagonal_value", "addSubDiagonal",
                   "addMatrix", "copyRowsFrom"}

\* assert(false && "not needed"); and the return that follows it
assert_false(ndebug) == IF ndebug THEN "ok" ELSE "abort"

\* the arguments handed to the operation: scalars, and a vector or a matrix
UnsupportedArgs == [beta : {0, 1}, alpha : {1, 3}, start : {0, 1},
                    X : {"A", "other"}]

Unsupported ==
  \E op \in UnsupportedOps, args \in UnsupportedArgs :
    /\ Alive
    /\ A.cls # "none"
    /\ call' = [op |-> op, target |-> "A", outcome |-> assert_false(build.ndebug),
                args |-> args]
    /\ UNCHANGED <<build, heap, A, B, prev>>

InitUnsup ==
  /\ \E cfg \in MemConfigs, ndebug \in BOOLEAN :
       /\ build = [gpu |-> cfg[1], deep |-> cfg[2], ndebug |-> ndebug]
       /\ \E cls \in {"General", "Sym"}, rows \in {0, MaxRows},
             nz \in {0, MaxNnz} :
            /\ nz = EffNnz(rows, MaxCols, nz)
            /\ LET r == hiopMatrixRajaSparseTriplet(<<>>, cls, rows,
                          IF cls = "Sym" THEN rows ELSE MaxCols, nz, cfg[3],
                          cfg[1], 0)
               IN  /\ A = r.obj
                   /\ \E valOf \in MemVals(nz) :
                        heap = Populate(r, Forward(cls, rows, r.obj.ncols,
                                                   nz, valOf))
  /\ B = NoMatrix
  /\ call = NoCall
  /\ prev = NoCall

NextUnsup == Unsupported \/ SetToConstantOp({"A"}, MemConsts)

SpecUnsup == InitUnsup /\ [][NextUnsup]_vars

(***************************************************************************)
(* The scatter loops of timesVec, transTimesVec and the symmetric timesVec *)
(* as RAJA::forall<hiop_raja_exec> runs them: the iterations are           *)
(* concurrent, and an addition made through RAJA::AtomicRef<double,        *)
(* hiop_raja_atomic> is one indivisible read-modify-write.  The running    *)
(* loop is the call record: yout is y as it stands, todo the additions     *)
(* still to be made, order the additions made so far.                      *)
(***************************************************************************)
\* the additions of the loop: one per triplet, and in the symmetric product
\* a second one for a triplet off the diagonal
ScatterSteps(m, h, op) ==
  {<<k, 1>> : k \in Range0(m.nnz)}
    \cup (IF op = "Sym_timesVec"
          THEN {<<k, 2>> : k \in {j \in Range0(m.nnz) :
                                    h[m.iRow_][j] # h[m.jCol_][j]}}
          ELSE {})

\* the addition made on the value y held when the loop began
timesVecIter_lostUpdate(m, h, c, k) ==
  LET irw == h[m.iRow_]
      jcl == h[m.jCol_]
      vls == h[m.values_]
  IN  [c.yout EXCEPT ![irw[k]] =
         c.y[irw[k]] * c.beta + c.alpha * c.x[jcl[k]] * vls[k]]

\* yy += alpha * x[jcl[i]] * vls[i] with yy an AtomicRef to y[irw[i]]
timesVecIter(m, h, c, k) ==
  LET irw == h[m.iRow_]
      jcl == h[m.jCol_]
      vls == h[m.values_]
  IN  [c.yout EXCEPT ![irw[k]] = @ + c.alpha * c.x[jcl[k]] * vls[k]]

\* yy += alpha * x[iRow[i]] * values[i] with yy an AtomicRef to y[jCol[i]]
transTimesVecIter(m, h, c, k) ==
  LET iRow == h[m.iRow_]
      jCol == h[m.jCol_]
      values == h[m.values_]
  IN  [c.yout EXCEPT ![jCol[k]] = @ + c.alpha * c.x[iRow[k]] * values[k]]

\* the first and the second addition of iteration k, both to y[iRow[i]]
Sym_timesVecIter(m, h, c, k, part) ==
  LET iRow == h[m.iRow_]
      jCol == h[m.jCol_]
      values == h[m.values_]
  IN  IF part = 1
      THEN [c.yout EXCEPT ![iRow[k]] = @ + c.alpha * c.x[jCol[k]] * values[k]]
      ELSE [c.yout EXCEPT ![iRow[k]] = @ + c.alpha * c.x[iRow[k]] * values[k]]

\* no loop is running
Idle == IF "todo" \in DOMAIN call THEN call.todo = {} ELSE TRUE

Running(op) ==
  IF "todo" \in DOMAIN call THEN call.op = op /\ call.todo # {} ELSE FALSE

\* the call up to the end of the first forall (y[i] *= beta), which has
\* returned before the scatter loop is launched
ScatterStart(op, nin, nout) ==
  /\ Idle
  /\ \E sc \in Scalars, x \in XVecs(nin), y \in YVecs(nout) :
       call' = [op |-> op, beta |-> sc[1], alpha |-> sc[2], x |-> x, y |-> y,
                yout |-> [i \in Range0(nout) |-> y[i] * sc[1]],
                todo |-> ScatterSteps(A, heap, op), order |-> <<>>]
  /\ UNCHANGED <<build, heap, A, B, prev>>

TimesVecStart ==
  A.cls = "General" /\ ScatterStart("timesVec", A.ncols, A.nrows)

TransTimesVecStart ==
  A.cls = "General" /\ ScatterStart("transTimesVec", A.nrows, A.ncols)

SymTimesVecStart ==
  A.cls = "Sym" /\ ScatterStart("Sym_timesVec", A.ncols, A.nrows)

\* some thread makes one of the additions still to be made
TimesVecStep ==
  /\ Running("timesVec")
  /\ \E s \in call.todo :
       call' = [call EXCEPT !.yout = timesVecIter(A, heap, call, s[1]),
                            !.todo = @ \ {s}, !.order = Append(@, s)]
  /\ UNCHANGED <<build, heap, A, B, prev>>

TransTimesVecStep ==
  /\ Running("transTimesVec")
  /\ \E s \in call.todo :
       call' = [call EXCEPT !.yout = transTimesVecIter(A, heap, call, s[1]),
                            !.todo = @ \ {s}, !.order = Append(@, s)]
  /\ UNCHANGED <<build, heap, A, B, prev>>

\* within one iteration the second addition follows the first
SymTimesVecStep ==
  /\ Running("Sym_timesVec")
  /\ \E s \in call.todo :
       /\ s[2] = 2 => <<s[1], 1>> \notin call.todo
       /\ call' = [call EXCEPT
                     !.yout = Sym_timesVecIter(A, heap, call, s[1], s[2]),
                     !.todo = @ \ {s}, !.order = Append(@, s)]
  /\ UNCHANGED <<build, heap, A, B, prev>>

(***************************************************************************)
(* Specification of the concurrent scatter loops: A is any general or      *)
(* symmetric matrix of MaxNnz triplets, which may share rows and columns.  *)
(***************************************************************************)
\* every triplet holds the same value: only where it lands matters here
ScatterVals == {3}

InitPar ==
  /\ \E cfg \in VecConfigs :
       /\ build = [gpu |-> cfg[1], deep |-> FALSE]
       /\ \E cls \in {"General", "Sym"} :
            LET r == hiopMatrixRajaSparseTriplet(<<>>, cls, MaxRows,
                       IF cls = "Sym" THEN MaxRows ELSE MaxCols, MaxNnz,
                       cfg[2], cfg[1], 0)
            IN  /\ A = r.obj
                /\ \E trip \in (IF cls = "Sym"
                                THEN UpperTriplets(MaxRows, MaxNnz,
                                                   ScatterVals)
                                ELSE Triplets(MaxRows, MaxCols, MaxNnz,
                                              ScatterVals)) :
                     heap = Populate(r, trip)
  /\ B = NoMatrix
  /\ call = NoCall
  /\ prev = NoCall

NextPar ==
  \/ TimesVecStart
  \/ TimesVecStep
  \/ TransTimesVecStart
  \/ TransTimesVecStep
  \/ SymTimesVecStart
  \/ SymTimesVecStep

SpecPar == InitPar /\ [][NextPar]_vars

(***************************************************************************)
(* The owner of a matrix rewriting its sparsity pattern: it asks for the   *)
(* host index arrays (getRowIndices and getColumnIndices, each a           *)
(* copyFromDev followed by the host pointer) and stores new indices.       *)
(***************************************************************************)
\* n triplets down the diagonal, one per row
Diagonal(rows, cols, n, valOf) ==
  [k \in Range0(n) |-> <<Min(k, rows - 1), k % cols, valOf[k]>>]

\* the patterns the owner may store: both sorted and free of duplicates
Patterns(m) ==
  {Forward("General", m.nrows, m.ncols, m.nnz, [k \in Range0(m.nnz) |-> 0]),
   Diagonal(m.nrows, m.ncols, m.nnz, [k \in Range0(m.nnz) |-> 0])}

RewriteIndices ==
  /\ Alive
  /\ \E trip \in Patterns(A) :
       /\ heap' = [copyFromDev(A, heap) EXCEPT
                     ![A.iRow_host_] = [k \in Range0(A.nnz) |-> trip[k][1]],
                     ![A.jCol_host_] = [k \in Range0(A.nnz) |-> trip[k][2]]]
       /\ call' = [op |-> "rewriteIndices", target |-> "A", outcome |-> "ok",
                   iRow |-> heap'[A.iRow_host_], jCol |-> heap'[A.jCol_host_]]
  /\ UNCHANGED <<build, A, B, prev>>

(***************************************************************************)
(* Specification of the index under rewrites: A is a sorted general matrix *)
(* whose owner rewrites the pattern between calls of the Gram kernel.      *)
(***************************************************************************)
InitIdx ==
  /\ \E cfg \in MemConfigs :
       /\ build = [gpu |-> cfg[1], deep |-> cfg[2]]
       /\ \E nz \in 1 .. MaxNnz :
            LET r == hiopMatrixRajaSparseTriplet(<<>>, "General", MaxRows,
                       MaxCols, nz, cfg[3], cfg[1], 0)
            IN  /\ A = r.obj
                /\ \E valOf \in MemVals(nz) :
                     heap = Populate(r, Forward("General", MaxRows, MaxCols,
                                                nz, valOf))
  /\ B = NoMatrix
  /\ call = NoCall
  /\ prev = NoCall

NextIdx ==
  \/ (Alive /\ AddMDinvMtrans)
  \/ RewriteIndices
  \/ CopyToDevOp({"A"})
  \/ CopyFromDevOp({"A"})

SpecIdx == InitIdx /\ [][NextIdx]_vars

(***************************************************************************)
(* The products expressed row by row (gather form).                        *)
(***************************************************************************)
\* sum of value[k]*x[col[k]] over the triplets k of row i
RowGather(m, h, x, i) ==
  LET K == {k \in Range0(m.nnz) : h[m.iRow_][k] = i}
  IN  SumF([k \in K |-> h[m.values_][k] * x[h[m.jCol_][k]]], K)

\* sum of value[k]*x[row[k]] over the triplets k of column j
ColGather(m, h, x, j) ==
  LET K == {k \in Range0(m.nnz) : h[m.jCol_][k] = j}
  IN  SumF([k \in K |-> h[m.values_][k] * x[h[m.iRow_][k]]], K)

\* entry (i,j) of the symmetrized matrix S of an upper-triangle matrix
SymEntry(m, h, i, j) ==
  LET K == {k \in Range0(m.nnz) :
              \/ h[m.iRow_][k] = i /\ h[m.jCol_][k] = j
              \/ h[m.iRow_][k] = j /\ h[m.jCol_][k] = i}
  IN  SumF([k \in K |-> h[m.values_][k]], K)

SymRowGather(m, h, x, i) ==
  SumF([j \in Range0(m.ncols) |-> SymEntry(m, h, i, j) * x[j]],
       Range0(m.ncols))

\* C1: after the symmetric timesVec(beta, y, alpha, x) every y[i] equals
\* beta*y_old[i] + alpha * sum_j S[i][j]*x[j], S the symmetrized matrix.
SymTimesVecFullProduct ==
  call.op = "Sym_timesVec" =>
    \A i \in Range0(A.nrows) :
      call.yout[i] = call.beta * call.y[i]
                     + call.alpha * SymRowGather(A, heap, call.x, i)

\* the result of timesVec, row by row
TimesVecResult ==
  call.op = "timesVec" =>
    /\ DOMAIN call.yout = Range0(A.nrows)
    /\ \A i \in Range0(A.nrows) :
         call.yout[i] = call.beta * call.y[i]
                        + call.alpha * RowGather(A, heap, call.x, i)

\* C2: after timesVec(beta, y, alpha, x) every y[i] equals
\* beta*y_old[i] + alpha * sum over the triplets of row i of value*x[col],
\* and the call leaves the matrix and its arrays unchanged.
TimesVecProduct ==
  /\ []TimesVecResult
  /\ [][call'.op = "timesVec" => (A' = A /\ heap' = heap)]_vars

\* C2: a timesVec call in which two triplets accumulate into the same y[i].
TimesVecWitness ==
  /\ call.op = "timesVec"
  /\ A.nnz = 2
  /\ heap[A.iRow_][0] = heap[A.iRow_][1]
  /\ heap[A.jCol_][0] # heap[A.jCol_][1]
  /\ call.beta = 2
  /\ call.alpha = 3
  /\ A.mem_space_ = "DEVICE"

\* C3: after transTimesVec(beta, y, alpha, x) every y[j] equals
\* beta*y_old[j] + alpha * sum over the triplets of column j of
\* value*x[row].
TransTimesVecProduct ==
  call.op = "transTimesVec" =>
    /\ DOMAIN call.yout = Range0(A.ncols)
    /\ \A j \in Range0(A.ncols) :
         call.yout[j] = call.beta * call.y[j]
                        + call.alpha * ColGather(A, heap, call.x, j)

\* C3: a transTimesVec call in which two triplets of different rows
\* accumulate into the same y[j].
TransTimesVecWitness ==
  /\ call.op = "transTimesVec"
  /\ A.cls = "General"
  /\ A.nnz = 2
  /\ heap[A.jCol_][0] = heap[A.jCol_][1]
  /\ heap[A.iRow_][0] # heap[A.iRow_][1]
  /\ call.beta = 2
  /\ call.alpha = 3

\* C4: with u = A*x from timesVec(0, u, 1, x) and w = A^T*y from
\* transTimesVec(0, w, 1, y) on the same matrix, y.u equals x.w.
IsPlainProduct(c) == c.beta = 0 /\ c.alpha = 1

TimesVecAdjoint ==
  /\ (prev.op = "timesVec" /\ call.op = "transTimesVec"
       /\ IsPlainProduct(prev) /\ IsPlainProduct(call))
      => Dot(call.x, prev.yout) = Dot(prev.x, call.yout)
  /\ (prev.op = "transTimesVec" /\ call.op = "timesVec"
       /\ IsPlainProduct(prev) /\ IsPlainProduct(call))
      => Dot(prev.x, call.yout) = Dot(call.x, prev.yout)

\* C4: timesVec then transTimesVec on a 2x2 matrix with an off-diagonal
\* entry, with different x and y.
TimesVecAdjointWitness ==
  /\ prev.op = "timesVec"
  /\ call.op = "transTimesVec"
  /\ IsPlainProduct(prev)
  /\ IsPlainProduct(call)
  /\ A.nrows = 2
  /\ A.ncols = 2
  /\ A.nnz = 2
  /\ heap[A.iRow_][0] # heap[A.jCol_][0]
  /\ call.x # prev.x
  /\ Dot(call.x, prev.yout) > 0

(***************************************************************************)
(* The weighted Gram products expressed entry by entry.                    *)
(***************************************************************************)
\* entry (i,k) of the matrix held by m: the value of its triplet (i,k), or 0
Entry(m, h, i, k) ==
  LET K == {t \in Range0(m.nnz) : h[m.iRow_][t] = i /\ h[m.jCol_][t] = k}
  IN  SumF([t \in K |-> h[m.values_][t]], K)

\* sum over the columns k of M1[i,k]*M2[j,k]/D[k]
WeightedDot(m1, m2, h, D, i, j) ==
  SumF([k \in Range0(m1.ncols) |->
          DivD(Entry(m1, h, i, k) * Entry(m2, h, j, k), D[k])],
       Range0(m1.ncols))

RowStartsValid ==
  A.row_starts_host # NULL =>
    LET offset == heap[A.row_starts_host]
    IN  /\ DOMAIN offset = 0 .. A.nrows
        /\ offset[0] = 0
        /\ \A i \in Range0(A.nrows) : offset[i] <= offset[i + 1]
        /\ offset[A.nrows] = A.nnz
        /\ \A i \in Range0(A.nrows), k \in Range0(A.nnz) :
             (offset[i] <= k /\ k < offset[i + 1])
               <=> heap[A.iRow_host_][k] = i

Mutations == {"setToConstant", "hostWrite", "copyToDev", "copyFromDev"}

\* C8: the matrix returned by new_copy has the shape, nnz and memory space
\* of the source and equal row, col and value arrays on the device and in
\* the host mirror, and a later setToConstant, host write, copyToDev or
\* copyFromDev on the copy leaves every buffer of the source unchanged, and
\* one on the source leaves every buffer of the copy unchanged.
NewCopyIsDeep ==
  /\ [](call.op = "new_copy" /\ call.outcome = "ok" =>
          /\ B.cls = A.cls
          /\ B.nrows = A.nrows
          /\ B.ncols = A.ncols
          /\ B.nnz = A.nnz
          /\ B.mem_space_ = A.mem_space_
          /\ heap[B.iRow_] = heap[A.iRow_]
          /\ heap[B.jCol_] = heap[A.jCol_]
          /\ heap[B.values_] = heap[A.values_]
          /\ heap[B.iRow_host_] = heap[A.iRow_host_]
          /\ heap[B.jCol_host_] = heap[A.jCol_host_]
          /\ heap[B.values_host_] = heap[A.values_host_])
  /\ [][B.cls # "none" /\ call'.op \in Mutations =>
          /\ call'.target = "B" => Snapshot(A, heap') = Snapshot(A, heap)
          /\ call'.target = "A" => Snapshot(B, heap') = Snapshot(B, heap)]_vars

\* a device-mirrored matrix with two values, its copy just set to -2 on the
\* device while the source still holds its own values
NewCopyWitness ==
  /\ B.cls # "none"
  /\ A.mem_space_ = "DEVICE"
  /\ A.nnz >= 2
  /\ call.op = "setToConstant"
  /\ call.target = "B"
  /\ heap[B.values_][1] = 0 - 2
  /\ heap[A.values_][1] = 2
  /\ heap[B.values_host_][1] = 2

\* the maximum of |value[k]| over the nnz values of the device array, 0 when
\* there is none
MaxAbsOf(m, h) ==
  IF m.nnz = 0 THEN 0
  ELSE MaxOfSet({Abs(h[m.values_][k]) : k \in Range0(m.nnz)})

\* C9: max_abs_value returns the maximum of |value[k]| over the nnz stored
\* values; right after setToConstant(c) on the same matrix it returns |c|
\* when nnz > 0 and 0 when nnz = 0; setToConstant changes the value array
\* and nothing else.
SetToConstantThenMaxAbs ==
  /\ [](call.op = "max_abs_value" =>
          call.result = MaxAbsOf(Mat(call.target), heap))
  /\ [][call.op = "setToConstant" /\ call'.op = "max_abs_value"
          /\ call'.target = call.target =>
            call'.result = IF Mat(call.target).nnz > 0 THEN Abs(call.c)
                           ELSE 0]_vars
  /\ [][call'.op = "setToConstant" =>
          /\ A' = A
          /\ B' = B
          /\ \A b \in DOMAIN heap :
               b # Mat(call'.target).values_ => heap'[b] = heap[b]
          /\ \A k \in Range0(Mat(call'.target).nnz) :
               heap'[Mat(call'.target).values_][k] = call'.c]_vars

\* max_abs_value has returned 2 on a matrix whose values are all -2
SetToConstantThenMaxAbsWitness ==
  /\ call.op = "max_abs_value"
  /\ call.target = "A"
  /\ A.nnz >= 2
  /\ \A k \in Range0(A.nnz) : heap[A.values_][k] = 0 - 2
  /\ call.result = 2

\* isfinite returns true exactly when no value of the device array is
\* non-finite
IsFiniteResult ==
  call.op = "isfinite" /\ call.outcome = "ok" =>
    call.result = (\A k \in Range0(A.nnz) : std_isfinite(heap[A.values_][k]))

\* C10: isfinite returns true exactly when none of the nnz stored values
\* is non-finite, and the call changes no value or index of the matrix.
IsFiniteReadOnly ==
  /\ IsFiniteResult
  /\ call.op = "isfinite" /\ call.outcome = "ok" =>
       Snapshot(A, heap) = call.before

\* the matrix W after v[k] has been added to the cell cellOf[k] of W for
\* every k in K
DenseAfter(W, K, cellOf, v) ==
  [x \in DOMAIN W.buf |->
     LET Kx == {k \in K : cellOf[k] = x}
     IN  W.buf[x] + SumF([k \in Kx |-> v[k]], Kx)]

\* the cells where Wout differs from W
WrittenCells(W, Wout) == {x \in DOMAIN W.buf : Wout.buf[x] # W.buf[x]}

\* every stored triplet (r, c, v) maps to a cell on or above the diagonal
ImagesUpper(m, h, row_start, col_start) ==
  \A k \in Range0(m.nnz) :
    h[m.iRow_][k] + row_start <= h[m.jCol_][k] + col_start

\* C11: whenever the block fits inside W and every image (r+row_start,
\* c+col_start) is on or above the diagonal, the general
\* addToSymDenseMatrixUpperTriangle adds alpha*v to W[r+row_start][c+col_start]
\* for every stored triplet (r, c, v) and leaves every other entry unchanged.
AddToDenseEveryTriplet ==
  (/\ call.op = "addToSymDenseMatrixUpperTriangle"
   /\ A.cls = "General"
   /\ FitsIn(DenseDest, call.row_start, A.nrows, call.col_start, A.ncols)
   /\ ImagesUpper(A, heap, call.row_start, call.col_start))
  => /\ call.outcome = "ok"
     /\ call.Wout.buf =
          DenseAfter(call.W, Range0(A.nnz),
                     [k \in Range0(A.nnz) |->
                        WMidx(call.W, heap[A.iRow_][k] + call.row_start,
                              heap[A.jCol_][k] + call.col_start)],
                     [k \in Range0(A.nnz) |-> call.alpha * heap[A.values_][k]])

\* every image (c+row_start, r+col_start) of the transpose is on or above
\* the diagonal
TransImagesUpper(m, h, row_start, col_start) ==
  \A k \in Range0(m.nnz) :
    h[m.jCol_][k] + row_start <= h[m.iRow_][k] + col_start

\* C12: the general transAddToSymDenseMatrixUpperTriangle adds alpha*v to
\* W[c+row_start][r+col_start] for every stored triplet (r, c, v) and leaves
\* every other entry unchanged; it requires row_start+cols <= W.rows and
\* col_start+rows <= W.cols and, in a deep-check build, every image on or
\* above the diagonal.
TransAddToDenseEveryTriplet ==
  (call.op = "transAddToSymDenseMatrixUpperTriangle" /\ A.cls = "General")
  => /\ call.outcome = "ok" <=>
          /\ FitsIn(DenseDest, call.row_start, A.ncols, call.col_start,
                    A.nrows)
          /\ build.deep =>
               TransImagesUpper(A, heap, call.row_start, call.col_start)
     /\ call.outcome = "ok" =>
          call.Wout.buf =
            DenseAfter(call.W, Range0(A.nnz),
                       [k \in Range0(A.nnz) |->
                          WMidx(call.W, heap[A.jCol_][k] + call.row_start,
                                heap[A.iRow_][k] + call.col_start)],
                       [k \in Range0(A.nnz) |->
                          call.alpha * heap[A.values_][k]])

\* a 2-row matrix holding (0,1,v) has been added transposed at (0, 1):
\* the cell W[1][1] has changed
TransAddToDenseWitness ==
  /\ call.op = "transAddToSymDenseMatrixUpperTriangle"
  /\ A.cls = "General"
  /\ call.outcome = "ok"
  /\ A.nnz >= 2
  /\ heap[A.iRow_][1] = 0
  /\ heap[A.jCol_][1] = 1
  /\ call.row_start = 0
  /\ call.col_start = 1
  /\ TransImagesUpper(A, heap, 0, 1)
  /\ call.Wout.buf[WMidx(call.W, 1, 1)] # call.W.buf[WMidx(call.W, 1, 1)]

\* the symmetric add leaves W as the general add does
SymAddAsGeneral ==
  (call.op = "addToSymDenseMatrixUpperTriangle" /\ A.cls = "Sym"
   /\ call.outcome = "ok")
  => call.Wout = addToSymDenseMatrixUpperTriangle(
                   A, heap, call.row_start, call.col_start, call.alpha,
                   call.W, FALSE).W

\* the symmetric transpose add leaves W as the general transpose add does
SymTransAddAsGeneral ==
  (call.op = "transAddToSymDenseMatrixUpperTriangle" /\ A.cls = "Sym"
   /\ call.outcome = "ok")
  => call.Wout = transAddToSymDenseMatrixUpperTriangle(
                   A, heap, call.row_start, call.col_start, call.alpha,
                   call.W, FALSE).W

\* every cell a symmetric operation writes is on or above the diagonal of W
SymWritesUpper ==
  (call.op \in {"addToSymDenseMatrixUpperTriangle",
                "transAddToSymDenseMatrixUpperTriangle"}
   /\ A.cls = "Sym" /\ call.outcome = "ok")
  => \A x \in WrittenCells(call.W, call.Wout) : x \div call.W.n <= x % call.W.n

\* C13: each symmetric add-to-dense operation leaves W in the state the
\* corresponding general operation leaves it in on the same triplets, and
\* writes only cells with destination row <= destination column.
SymAddsAsGeneral ==
  /\ SymTransAddAsGeneral
  /\ SymWritesUpper
  /\ SymAddAsGeneral

\* the count a call works with: a negative count stands for the size of dest
EffCount(c) == IF c.count < 0 THEN SizeOf(c.dest) ELSE c.count

\* the triplets the call c selects: on the diagonal, row in
\* [diag_src_start, diag_src_start + count)
SubDiagSelected(m, h, c) ==
  {k \in Range0(m.nnz) :
     /\ h[m.iRow_][k] = h[m.jCol_][k]
     /\ c.diag_src_start <= h[m.iRow_][k]
     /\ h[m.iRow_][k] < c.diag_src_start + EffCount(c)}

MirrorAliased(m) ==
  /\ m.iRow_host_ = m.iRow_
  /\ m.jCol_host_ = m.jCol_
  /\ m.values_host_ = m.values_

\* the host-mirror arrays of m are three more live buffers of nnz elements
MirrorIndependent(m, h) ==
  /\ Cardinality(Bufs(m)) = 6
  /\ \A b \in Bufs(m) : b \in DOMAIN h /\ SizeOf(h[b]) = m.nnz

\* the matrices that exist
Matrices == {m \in {A, B} : m.cls # "none"}

\* C15 as stated: in every state the host mirror aliases the device arrays
\* when the memory space is the host space and consists of independent
\* allocations of length nnz when it is any other space.
MirrorAliasedIffHostSpace ==
  \A m \in Matrices :
    /\ m.mem_space_ = "HOST" => MirrorAliased(m)
    /\ m.mem_space_ # "HOST" => MirrorIndependent(m, heap)

\* C15, amended: in every state the host mirror consists of independent
\* allocations of length nnz when the memory space is "DEVICE" and aliases
\* the device arrays for every other space, the host space included.
MirrorIndependentIffDevice ==
  \A m \in Matrices :
    /\ m.mem_space_ = "DEVICE" => MirrorIndependent(m, heap)
    /\ m.mem_space_ # "DEVICE" => MirrorAliased(m)

\* a device-mirrored matrix and its copy; a host write to the source is
\* seen neither by the device array of the source nor by the copy
MirrorWitness ==
  /\ B.cls # "none"
  /\ A.mem_space_ = "DEVICE"
  /\ A.nnz >= 2
  /\ call.op = "hostWrite"
  /\ call.target = "A"
  /\ heap[A.values_host_][call.k] = 5
  /\ heap[A.values_][call.k] # 5
  /\ heap[B.values_host_][call.k] # 5

\* the device side and the host side of m hold the same three arrays
SidesEqual(m, h) ==
  /\ h[m.iRow_host_] = h[m.iRow_]
  /\ h[m.jCol_host_] = h[m.jCol_]
  /\ h[m.values_host_] = h[m.values_]

\* the buffers in S are as they were
Kept(S) == \A b \in S : heap'[b] = heap[b]

\* C16: copyToDev and copyFromDev change nothing when the memory space is
\* the host space; copyFromDev makes the host-mirror row, col and value
\* arrays equal to the device arrays and leaves the device arrays as they
\* were, copyToDev the reverse; either call followed by the other, or by
\* itself, changes nothing more and leaves both sides equal.
CopyToFromDev ==
  /\ [][call'.op = "copyFromDev" =>
          LET m == Mat(call'.target)
          IN  /\ Kept(DevBufs(m))
              /\ heap'[m.iRow_host_] = heap[m.iRow_]
              /\ heap'[m.jCol_host_] = heap[m.jCol_]
              /\ heap'[m.values_host_] = heap[m.values_]
              /\ Kept(DOMAIN heap \ Bufs(m))
              /\ m.mem_space_ = "HOST" => heap' = heap]_vars
  /\ [][call'.op = "copyToDev" =>
          LET m == Mat(call'.target)
          IN  /\ Kept(HostBufs(m))
              /\ heap'[m.iRow_] = heap[m.iRow_host_]
              /\ heap'[m.jCol_] = heap[m.jCol_host_]
              /\ heap'[m.values_] = heap[m.values_host_]
              /\ Kept(DOMAIN heap \ Bufs(m))
              /\ m.mem_space_ = "HOST" => heap' = heap]_vars
  /\ [][call.op \in {"copyToDev", "copyFromDev"}
          /\ call'.op \in {"copyToDev", "copyFromDev"}
          /\ call'.target = call.target =>
            heap' = heap /\ SidesEqual(Mat(call.target), heap')]_vars

\* copyFromDev has just replaced host arrays that differed from the device
\* arrays in an index and in a value
CopyFromDevWitness ==
  /\ call.op = "copyFromDev"
  /\ call.target = "A"
  /\ A.mem_space_ = "DEVICE"
  /\ A.nnz >= 2
  /\ A.ncols >= 2
  /\ heap[A.values_host_][0] = 0 - 2
  /\ heap[A.values_][0] = 0 - 2
  /\ heap[A.jCol_host_] = heap[A.jCol_]
  /\ \A k \in Range0(A.nnz) : heap[A.jCol_host_][k] = 0

\* the buffers a matrix owns: its arrays and, once built, idx_start_
Owned(m) ==
  Bufs(m) \cup (IF m.row_starts_host # NULL THEN {m.row_starts_host} ELSE {})

\* every buffer of S occurs exactly once in the sequence s, and nothing else
ExactlyOnce(s, S) ==
  /\ \A b \in S : Cardinality({k \in DOMAIN s : s[k] = b}) = 1
  /\ \A k \in DOMAIN s : s[k] \in S

\* the allocator hands out ascending ids: of two live buffers the one
\* acquired first has the smaller id
AcquiredBefore(a, b) == a < b

\* the destructor released everything the matrix owned once and only that,
\* the row-start index (if built) first
ReleasedAll(c) ==
  /\ c.outcome = "ok"
  /\ ExactlyOnce(c.released, Owned(c.obj))
  /\ DOMAIN heap = c.live \ Owned(c.obj)
  /\ c.obj.row_starts_host # NULL => c.released[1] = c.obj.row_starts_host

\* the arrays (the index left aside) in the sequence of releases
ArraysOf(c) ==
  IF c.obj.row_starts_host # NULL THEN Tail(c.released) ELSE c.released

\* C17, as stated: the destructor releases the row-start index first and
\* then every owned buffer exactly once, the arrays in the reverse of the
\* order in which the constructor acquired them.
DestructorReleasesInReverse ==
  call.op = "destructor" =>
    /\ ReleasedAll(call)
    /\ \A j, k \in DOMAIN ArraysOf(call) :
         j < k => AcquiredBefore(ArraysOf(call)[k], ArraysOf(call)[j])

\* C17, amended: the destructor releases the row-start index first (if
\* built) and then every owned buffer exactly once, none twice and none
\* left, the arrays in the same order as the constructor acquired them;
\* once both matrices are deleted no buffer is left.
DestructorReleasesInOrder ==
  /\ call.op = "destructor" =>
       /\ ReleasedAll(call)
       /\ \A j, k \in DOMAIN ArraysOf(call) :
            j < k => AcquiredBefore(ArraysOf(call)[j], ArraysOf(call)[k])
  /\ (A = NoMatrix /\ B = NoMatrix) => DOMAIN heap = {}

\* a mirrored matrix with a built index was deleted after its copy was:
\* seven buffers released, the index first
DestructorWitness ==
  /\ call.op = "destructor"
  /\ call.target = "A"
  /\ call.obj.mem_space_ = "DEVICE"
  /\ call.obj.row_starts_host # NULL
  /\ Len(call.released) = 7
  /\ B = NoMatrix
  /\ DOMAIN heap = {}

\* C18: every call of an operation that triplet storage does not support
\* ends in the fatal unsupported-operation condition, whatever its
\* arguments, and leaves the matrix and its operands as they were.
UnsupportedAlwaysFatal ==
  /\ [](call.op \in UnsupportedOps => call.outcome = "abort")
  /\ [][call'.op \in UnsupportedOps =>
          heap' = heap /\ A' = A /\ B' = B]_vars

\* the part of C18 that every build satisfies: the call changes nothing
UnsupportedChangesNothing ==
  [][call'.op \in UnsupportedOps => heap' = heap /\ A' = A /\ B' = B]_vars

GramOps == {"addMDinvMtransToDiagBlockOfSymDeMatUTri",
            "addMDinvNtransToSymDeMatUTri"}

\* the matrix held in variable m exists before and after the step
Lives(m) == m.cls # "none" /\ m'.cls # "none"

\* C19: the row-start index is built lazily and kept: the matrix first
\* constructed and a matrix returned by alloc_clone or new_copy have none;
\* a Gram kernel call that returns leaves every matrix it involves with an
\* index; an index once stored is neither replaced nor rewritten, and a
\* call on matrices that have one allocates nothing; an operation other
\* than the two Gram kernels never builds one.
RowStartsLazyAndMemoized ==
  /\ [](call.op = "none" => A.row_starts_host = NULL)
  /\ [](call.op \in {"alloc_clone", "new_copy"} /\ call.outcome = "ok"
          => B.row_starts_host = NULL)
  /\ [][(call'.op = "addMDinvMtransToDiagBlockOfSymDeMatUTri"
           /\ call'.outcome = "ok") => A'.row_starts_host # NULL]_vars
  /\ [][(call'.op = "addMDinvNtransToSymDeMatUTri" /\ call'.outcome = "ok")
          => A'.row_starts_host # NULL /\ B'.row_starts_host # NULL]_vars
  /\ [][\A m \in {"A", "B"} :
          (Mat(m).cls # "none" /\ Mat(m)'.cls # "none"
             /\ Mat(m).row_starts_host # NULL)
          => /\ Mat(m)'.row_starts_host = Mat(m).row_starts_host
             /\ heap'[Mat(m).row_starts_host] = heap[Mat(m).row_starts_host]]_vars
  /\ [][(call'.op \in GramOps /\ Lives(A) /\ A.row_starts_host # NULL
           /\ (call'.op = "addMDinvNtransToSymDeMatUTri"
                 => B.row_starts_host # NULL))
          => DOMAIN heap' = DOMAIN heap]_vars
  /\ [][call'.op \notin GramOps =>
          /\ Lives(A) => A'.row_starts_host = A.row_starts_host
          /\ (Lives(B) /\ call'.op \notin {"alloc_clone", "new_copy"})
               => B'.row_starts_host = B.row_starts_host]_vars

\* the two-matrix kernel has just run on A, whose index an earlier call of
\* the one-matrix kernel had built, and on a copy B that had none
RowStartsWitness ==
  /\ call.op = "addMDinvNtransToSymDeMatUTri"
  /\ call.outcome = "ok"
  /\ A.nrows > 0
  /\ A.nnz > 0
  /\ A.row_starts_host # NULL
  /\ A.row_starts_host < B.iRow_
  /\ B.row_starts_host # NULL

\* what the loop of the call c yields when its iterations run one after the
\* other
SequentialResult(c) ==
  CASE c.op = "timesVec" -> timesVec(A, heap, c.beta, c.y, c.alpha, c.x)
    [] c.op = "transTimesVec" ->
         transTimesVec(A, heap, c.beta, c.y, c.alpha, c.x)
    [] c.op = "Sym_timesVec" ->
         Sym_timesVec(A, heap, c.beta, c.y, c.alpha, c.x)

\* C20: when the iterations of the scatter loop of timesVec, transTimesVec
\* or the symmetric timesVec run concurrently, in whatever order their
\* atomic additions are made, the final y is the y obtained by running the
\* iterations one after the other: no addition is lost.
ScatterAddsAtomic ==
  ("todo" \in DOMAIN call /\ Idle) => call.yout = SequentialResult(call)

\* a timesVec loop has ended in which iteration 1 added before iteration 0
\* to the same element of y
ScatterAddsWitness ==
  /\ "todo" \in DOMAIN call
  /\ Idle
  /\ call.op = "timesVec"
  /\ call.alpha # 0
  /\ call.order = <<<<1, 1>>, <<0, 1>>>>
  /\ heap[A.iRow_][0] = heap[A.iRow_][1]
  /\ call.yout[heap[A.iRow_][0]] =
       call.y[heap[A.iRow_][0]] * call.beta
         + call.alpha * call.x[heap[A.jCol_][0]] * heap[A.values_][0]
         + call.alpha * call.x[heap[A.jCol_][1]] * heap[A.values_][1]

\* the offsets allocAndBuildRowStarts computes from the row indices rowsArr
RowStartsOf(m, rowsArr, colsArr) ==
  BuildLoop(rowsArr, colsArr, m.nrows, m.nnz, FALSE,
            [k \in 0 .. m.nrows |-> 0], 1, 0, TRUE).idx

\* C21: whenever a matrix holds a row-start index, the index is the one
\* allocAndBuildRowStarts would compute from the row indices the matrix
\* holds now, whatever rewrites of the indices through the host arrays,
\* copies between host and device and Gram kernel calls came before.
RowStartsDescribeTriplets ==
  (A.row_starts_host # NULL /\ A.nrows > 0 /\ Alive) =>
    heap[A.row_starts_host] =
      RowStartsOf(A, heap[A.iRow_host_], heap[A.jCol_host_])

\* the Gram kernel has just sliced the rows with offsets that do not
\* describe the row indices it read
StaleIndexUsed ==
  /\ call.op = "addMDinvMtransToDiagBlockOfSymDeMatUTri"
  /\ call.outcome = "ok"
  /\ heap[A.row_starts_host] # RowStartsOf(A, heap[A.iRow_], heap[A.jCol_])

\* what the call c added to W for triplet k of the general matrix A
AddedFor(c, k) ==
  LET x == WMidx(c.W, heap[A.iRow_][k] + c.row_start,
                 heap[A.jCol_][k] + c.col_start)
  IN  c.Wout.buf[x] - c.W.buf[x]

\* C22: all kernels of one matrix read the same copy of the data: what
\* addToSymDenseMatrixUpperTriangle adds for triplet k is alpha times the
\* value[k] that transAddToSymDenseMatrixUpperTriangle, timesVec and
\* max_abs_value read in that state (after setToConstant(c) it adds alpha*c
\* for every triplet), so the largest magnitude it adds is alpha times
\* max_abs_value.
KernelsReadSameCopy ==
  (/\ call.op = "addToSymDenseMatrixUpperTriangle"
   /\ call.outcome = "ok"
   /\ A.cls = "General")
  => /\ \A k \in Range0(A.nnz) :
          AddedFor(call, k) = call.alpha * heap[A.values_][k]
     /\ MaxOfSet({Abs(AddedFor(call, k)) : k \in Range0(A.nnz)} \cup {0})
          = Abs(call.alpha) * max_abs_value(A, heap)

\* the entry preconditions of startingAtAddSubDiagonalToStartingAt hold for
\* the call c on the matrix m
SubDiagEntryOk(m, c) ==
  /\ EffCount(c) <= SizeOf(c.dest)
  /\ c.diag_src_start >= 0
  /\ c.diag_src_start + EffCount(c) <= m.nrows
  /\ c.dest_start >= 0

\* C23: startingAtAddSubDiagonalToStartingAt never writes outside the
\* destination vector: for every call satisfying the entry preconditions
\* (count <= size(dest), diag_src_start >= 0, diag_src_start + count <= rows,
\* dest_start >= 0) every index dest_start + row that is written lies in
\* [0, size(dest)), so the assertion inside the loop does not fail.
SubDiagonalStaysInside ==
  (/\ call.op = "startingAtAddSubDiagonalToStartingAt"
   /\ SubDiagEntryOk(A, call))
  => /\ call.outcome = "ok"
     /\ \A k \in SubDiagSelected(A, heap, call) :
          /\ 0 <= call.dest_start + heap[A.iRow_][k]
          /\ call.dest_start + heap[A.iRow_][k] < SizeOf(call.dest)

====
